---------------------------- MODULE Spec2Model ----------------------------
(***************************************************************************)
(* A model of the EFCT virtual-interface data path of                      *)
(* src/src/lib/ciul/efct_vi.c: the packet-id codec, the receive engine     *)
(* (rx_rollover, efct_poll_rx, efct_vi_rxpkt_release), the transmit engine *)
(* (efct_tx_*, efct_ef_vi_transmit, efct_poll_tx) and efct_ef_eventq_poll. *)
(*                                                                         *)
(* TLC integers are 32-bit signed, so a C word that uses bit 31 or more is *)
(* kept as 16-bit limbs: a 32-bit rxq pointer is [hi, lo] (bits 16..31 and *)
(* bits 0..15), and the 64-bit rxq_ptr->next is [sbseq, hi, lo].  Counters *)
(* that are uint32 in C (added, ct_added, evq_ptr, ...) are kept as        *)
(* naturals; the bounds below keep them far from 2^32.                     *)
(***************************************************************************)
EXTENDS Integers, Sequences, FiniteSets, TLC

VARIABLES
  arg, res,          \* operands and result of the pure functions under test
  txq,               \* ef_vi_txq_state: added, removed, previous, ct_added, ct_removed
  descriptors,       \* vi_txq.descriptors: ring of struct efct_tx_descriptor
  ids,               \* vi_txq.ids: ring of request ids
  evq,               \* ef_eventq_state: evq_ptr, sync_*, unsol_credit_seq
  evq_mem,           \* the event ring memory, written by the NIC
  ctpio,             \* the words the latest transmit wrote to the CTPIO aperture
  unsol_reg,         \* latest value written to the unsolicited-credit register
  nic,               \* the NIC's side of the TXQ / event queue
  txq_mask,          \* vi->vi_txq.mask (0: the VI has no TXQ)
  efct_fixed_header, \* vi->vi_txq.efct_fixed_header: TIMESTAMP_FLAG and WARM_FLAG
  last_ctpio_failed, \* vi->last_ctpio_failed
  tx_pending,        \* plain TX events delivered and not yet unbundled by the caller
  rxq_ptr,           \* ep_state->rxq.rxq_ptr[]: next, prev, end of each RXQ
  rx_desc,           \* vi_rxq.descriptors: struct efct_rx_descriptor by global superbuf index
  rxq,               \* efct_rxqs.q[]: qid and cached config_generation
  rx_discard_mask,   \* vi->rx_discard_mask
  active_qs,         \* *vi->efct_rxqs.active_qs, as the set of its bits
  live,              \* the live fields the resource manager publishes for each RXQ
  sbufs,             \* the superbufs: owner, sentinel of this traversal, headers written
  swq,               \* the superbufs published to each RXQ and not yet taken by ops.next
  hwq,               \* the superbufs the NIC still has to fill, and the next sequence number
  held,              \* packet ids delivered to the caller and not yet released
  evs, rc,           \* output array and return value of the latest call
  bug,               \* the BUG_ON / EF_VI_ASSERT conditions that have fired
  last_desc_id       \* desc_id of the latest plain TX event delivered

(***************************************************************************)
(* Bounds of the model.                                                    *)
(***************************************************************************)
\* tx_fifo_bytes of the design parameters, in 64-byte cache lines
FifoLines == 3
\* the TX ring holds 2^TxRingOrder descriptors
TxRingOrder == 1
\* the CTPIO aperture holds 2^ApertureOrder bytes
ApertureOrder == 8
\* the event ring holds 2^EvqOrder events
EvqOrder == 2
\* EFCT_TX_EVENT_SEQUENCE_WIDTH, scaled down so that the SEQUENCE field wraps
SeqWidth == 2
\* transmits per behaviour
MaxAdded == 4
\* events the NIC writes per behaviour
MaxEvents == 5
\* largest evs_len passed to a poll
MaxEvs == 2
\* most events other than completions the NIC writes
MaxControl == 1
\* RXQs of the VI (efct_rxqs.max_qs)
MaxRxqs == 2
\* superbufs the resource manager cycles through each RXQ
MaxSbufs == 2
\* largest superbuf sequence number handed out
MaxSbSeq == 2
\* largest live superbuf_pkts
MaxSuperbufPkts == 2
\* most headers the NIC writes into one superbuf
MaxFill == MaxSuperbufPkts + 1
\* largest live config_generation
MaxGen == 1

(***************************************************************************)
(* Program constants.                                                      *)
(***************************************************************************)
PKT_ID_PKT_BITS == 16
PKT_ID_SBUF_BITS == 11
PKT_ID_RXQ_BITS == 3
PKT_ID_TOTAL_BITS == PKT_ID_PKT_BITS + PKT_ID_SBUF_BITS + PKT_ID_RXQ_BITS
CI_EFCT_MAX_SUPERBUFS == 2 ^ PKT_ID_SBUF_BITS
EF_VI_MAX_EFCT_RXQS == 8
EFCT_TX_ALIGNMENT == 64
EFCT_TX_HEADER_BYTES == 8
EFCT_TX_POSTED_ID == "efc7efc7"
EF_REQUEST_ID_MASK == "ffffffff"
EFCT_TX_CT_DISABLE == 255
EAGAIN == 11

ENOSPC == 28

EALREADY == 114
EF_VI_SYNC_FLAG_CLOCK_SET == 1
EF_VI_SYNC_FLAG_CLOCK_IN_SYNC == 2
CI_CFG_TIME_SYNC_EVENT_EVQ_CAPACITY == 4

(***************************************************************************)
(* Bit operations on naturals below 2^31.                                  *)
(***************************************************************************)
RECURSIVE BitAnd(_, _)
BitAnd(a, b) ==
  IF a = 0 \/ b = 0 THEN 0
  ELSE (a % 2) * (b % 2) + 2 * BitAnd(a \div 2, b \div 2)

RECURSIVE BitOr(_, _)
BitOr(a, b) ==
  IF a = 0 THEN b
  ELSE IF b = 0 THEN a
  ELSE (IF a % 2 = 1 \/ b % 2 = 1 THEN 1 ELSE 0) + 2 * BitOr(a \div 2, b \div 2)

Shr(a, n) == a \div (2 ^ n)

CI_ROUND_UP(x, a) == ((x + a - 1) \div a) * a

CI_MIN(a, b) == IF a < b THEN a ELSE b

(***************************************************************************)
(* 4.A  Packet-id codec.                                                   *)
(***************************************************************************)
\* pkt_id & ((1u << PKT_ID_PKT_BITS) - 1): the mask is 2^k - 1, so the remainder mod 2^k
pkt_id_to_index_in_superbuf(pkt_id) == pkt_id % (2 ^ PKT_ID_PKT_BITS)

pkt_id_to_global_superbuf_ix(pkt_id) == Shr(pkt_id, PKT_ID_PKT_BITS)

\* a faulty extraction that keeps the rxq bits
pkt_id_to_local_superbuf_ix_unmasked(pkt_id) == pkt_id_to_global_superbuf_ix(pkt_id)

pkt_id_to_local_superbuf_ix(pkt_id) ==
  pkt_id_to_global_superbuf_ix(pkt_id) % CI_EFCT_MAX_SUPERBUFS

pkt_id_to_rxq_ix(pkt_id) ==
  pkt_id_to_global_superbuf_ix(pkt_id) \div CI_EFCT_MAX_SUPERBUFS

\* A 32-bit rxq pointer is the pair of 16-bit limbs [hi |-> bits 16..31, lo |-> bits 0..15].
\* pkt_id | ((uint32_t)sentinel << 31)
OrSentinel(pkt_id, sentinel) ==
  [hi |-> BitOr(Shr(pkt_id, 16) % 65536, sentinel * 32768), lo |-> pkt_id % 65536]

\* ptr & 0x7fffffff: bit 15 of the high limb is masked off
rxq_ptr_to_pkt_id(ptr) == (ptr.hi % 32768) * 65536 + ptr.lo

\* ptr >> 31
rxq_ptr_to_sentinel(ptr) == Shr(ptr.hi, 15)

\* pkt_id = (qid * CI_EFCT_MAX_SUPERBUFS + rc) << PKT_ID_PKT_BITS
rollover_pkt_id(qid, sb) == (qid * CI_EFCT_MAX_SUPERBUFS + sb) * (2 ^ PKT_ID_PKT_BITS)

\* EF_VI_ASSERT(pkt_id >> PKT_ID_TOTAL_BITS == 0)
pkt_id_in_range(pkt_id) == Shr(pkt_id, PKT_ID_TOTAL_BITS) = 0


(***************************************************************************)
(* Design parameters (efct_design_parameters) and queue sizes.             *)
(***************************************************************************)
tx_fifo_bytes == FifoLines * EFCT_TX_ALIGNMENT

ct_fifo_bytes == tx_fifo_bytes - EFCT_TX_ALIGNMENT - EFCT_TX_HEADER_BYTES

efct_aperture_mask == Shr(2 ^ ApertureOrder - 1, 3)

TxRingSize == 2 ^ TxRingOrder

EvqSize == 2 ^ EvqOrder

evq_mask == 8 * EvqSize - 1

seq_mask == 2 ^ SeqWidth - 1

ts_subnano_bits == 2

unsol_credit_seq_mask == 127

(***************************************************************************)
(* 4.D  TX engine: admission and CTPIO streaming.                          *)
(* A 64-bit word in the aperture is kept as its memory image: the 8 bytes  *)
(* in address order on the little-endian host, or the header's fields.     *)
(***************************************************************************)
Zeros(n) == [i \in 1..n |-> 0]

\* the bytes of a packet of len bytes
Payload(len) == [i \in 1..len |-> 1 + (i % 255)]

efct_tx_header(packet_length, ct_thresh, timestamp_flag, warm_flag, action) ==
  [PACKET_LENGTH |-> packet_length, CT_THRESH |-> ct_thresh,
   TIMESTAMP_FLAG |-> timestamp_flag, WARM_FLAG |-> warm_flag, TX_ACTION |-> action]

efct_tx_pkt_header(fixed, length, ct_thresh) ==
  [efct_tx_header(length, ct_thresh, 0, 0, 0) EXCEPT
     !.TIMESTAMP_FLAG = BitOr(@, fixed.TIMESTAMP_FLAG),
     !.WARM_FLAG = BitOr(@, fixed.WARM_FLAG)]

\* ef_vi_transmit_space_bytes is defined in etherfabric/ef_vi.h, outside this source
\* tree; modelled from the specification: the free space of the cut-through FIFO
ef_vi_transmit_space_bytes(v) == ct_fifo_bytes - (v.txq.ct_added - v.txq.ct_removed)

\* the BUG_ON of efct_tx_check: the ring holds every packet the FIFO can
efct_tx_ring_fits == ~(txq_mask + 1 < (ct_fifo_bytes + EFCT_TX_HEADER_BYTES) \div EFCT_TX_ALIGNMENT)

\* a faulty admission test that ignores the FIFO space
efct_tx_check_always(v, len) == TRUE

efct_tx_check(v, len) == ef_vi_transmit_space_bytes(v) >= len

\* a faulty start that streams every packet from the base of the aperture
efct_tx_init_at_base(v) ==
  [tail |-> Zeros(8), tail_len |-> 0, offset |-> 0,
   mask |-> efct_aperture_mask, out |-> <<>>]

efct_tx_init(v) ==
  [tail |-> Zeros(8), tail_len |-> 0, offset |-> Shr(v.txq.ct_added, 3),
   mask |-> efct_aperture_mask, out |-> <<>>]

\* tail = (tail << 8) | byte, on the big-endian byte string of tail
efct_tx_tail_byte(tx, byte) ==
  [tx EXCEPT !.tail = Append(Tail(@), byte), !.tail_len = @ + 1]

\* the memory image of CI_BSWAP_BE64(tail): the big-endian string of tail
CI_BSWAP_BE64(tail) == tail

efct_tx_word(tx, value) ==
  [tx EXCEPT !.out = Append(@, [off |-> BitAnd(tx.offset, tx.mask), val |-> value]),
             !.offset = @ + 1]

RECURSIVE efct_tx_block_fill(_, _)
\* while( len > 0 && tx->tail_len < 8 ) efct_tx_tail_byte(tx, *base++)
efct_tx_block_fill(tx, bytes) ==
  IF Len(bytes) > 0 /\ tx.tail_len < 8
  THEN efct_tx_block_fill(efct_tx_tail_byte(tx, Head(bytes)), Tail(bytes))
  ELSE [tx |-> tx, bytes |-> bytes]

RECURSIVE efct_tx_block_words(_, _)
\* while( len >= 8 ) efct_tx_word(tx, *(uint64_t*)base), then the left-over bytes
efct_tx_block_words(tx, bytes) ==
  IF Len(bytes) >= 8
  THEN efct_tx_block_words(efct_tx_word(tx, SubSeq(bytes, 1, 8)),
                           SubSeq(bytes, 9, Len(bytes)))
  ELSE efct_tx_block_fill(tx, bytes).tx

\* a faulty block that never writes the full tail out
efct_tx_block_flush_never(tx) == tx

efct_tx_block_flush(tx) ==
  IF tx.tail_len = 8
  THEN [efct_tx_word(tx, CI_BSWAP_BE64(tx.tail)) EXCEPT !.tail = Zeros(8), !.tail_len = 0]
  ELSE tx

efct_tx_block(tx, bytes) ==
  IF tx.tail_len # 0
  THEN efct_tx_block_words(efct_tx_block_flush(efct_tx_block_fill(tx, bytes).tx),
                           efct_tx_block_fill(tx, bytes).bytes)
  ELSE efct_tx_block_words(tx, bytes)

\* a faulty completion that leaves the packet unpadded
efct_tx_pad_none(tx) == tx

RECURSIVE efct_tx_pad(_)
\* while( tx->offset % (EFCT_TX_ALIGNMENT >> 3) != 0 ) efct_tx_word(tx, 0)
efct_tx_pad(tx) ==
  IF tx.offset % Shr(EFCT_TX_ALIGNMENT, 3) # 0
  THEN efct_tx_pad(efct_tx_word(tx, Zeros(8)))
  ELSE tx

\* tail <<= (8 - tail_len) * 8
efct_tx_tail_shift(tx) ==
  SubSeq(tx.tail \o Zeros(8 - tx.tail_len), 9 - tx.tail_len, 16 - tx.tail_len)

efct_tx_complete(v, tx, dma_id, len) ==
  [v EXCEPT
     !.ctpio = efct_tx_pad(IF tx.tail_len # 0
                           THEN efct_tx_word(tx, CI_BSWAP_BE64(efct_tx_tail_shift(tx)))
                           ELSE tx).out,
     !.descriptors[BitAnd(v.txq.added, txq_mask)] =
        CI_ROUND_UP(len + EFCT_TX_HEADER_BYTES, EFCT_TX_ALIGNMENT) % 65536,
     !.ids[BitAnd(v.txq.added, txq_mask)] = dma_id,
     !.txq.ct_added = @ + CI_ROUND_UP(len + EFCT_TX_HEADER_BYTES, EFCT_TX_ALIGNMENT),
     !.txq.added = @ + 1]

efct_ef_vi_transmit(v, base, len, dma_id) ==
  IF ~efct_tx_check(v, len)
  THEN [v EXCEPT !.rc = -EAGAIN]
  ELSE [efct_tx_complete(v,
          efct_tx_block(efct_tx_word(efct_tx_init(v),
                          efct_tx_pkt_header(v.fixed, len, EFCT_TX_CT_DISABLE)),
                        base),
          dma_id, len) EXCEPT !.rc = 0]

RECURSIVE IovLen(_)
\* for( i = 0; i < iov_len; ++i ) len += iov[i].iov_len
IovLen(iov) == IF iov = <<>> THEN 0 ELSE Len(Head(iov)) + IovLen(Tail(iov))

RECURSIVE efct_tx_blocks(_, _)
\* for( i = 0; i < iov_len; ++i ) efct_tx_block(&tx, iov[i].iov_base, iov[i].iov_len)
efct_tx_blocks(tx, iov) ==
  IF iov = <<>> THEN tx ELSE efct_tx_blocks(efct_tx_block(tx, Head(iov)), Tail(iov))

efct_ef_vi_transmitv(v, iov, dma_id) ==
  IF ~efct_tx_check(v, IovLen(iov))
  THEN [v EXCEPT !.rc = -EAGAIN]
  ELSE [efct_tx_complete(v,
          efct_tx_blocks(efct_tx_word(efct_tx_init(v),
                           efct_tx_pkt_header(v.fixed, IovLen(iov), EFCT_TX_CT_DISABLE)),
                         iov),
          dma_id, IovLen(iov)) EXCEPT !.rc = 0]

tx_warm_active(v) == v.fixed.WARM_FLAG # 0

\* the threshold in bytes as the CT_THRESH field of the header
efct_ctpio_threshold(threshold) ==
  IF threshold > EFCT_TX_CT_DISABLE * EFCT_TX_ALIGNMENT -
                   (EFCT_TX_HEADER_BYTES + EFCT_TX_ALIGNMENT - 1)
  THEN EFCT_TX_CT_DISABLE
  ELSE (threshold + EFCT_TX_HEADER_BYTES + EFCT_TX_ALIGNMENT - 1) \div EFCT_TX_ALIGNMENT

\* a faulty CTPIO send that stores the placeholder id in warm mode too
efct_ctpio_dma_id_posted(v) == EFCT_TX_POSTED_ID

\* the request id a CTPIO send stores in the ring
efct_ctpio_dma_id(v) ==
  IF tx_warm_active(v) THEN EF_REQUEST_ID_MASK ELSE EFCT_TX_POSTED_ID

efct_ef_vi_transmitv_ctpio(v, len, iov, threshold) ==
  IF ~efct_tx_check(v, len)
  THEN [v EXCEPT !.last_ctpio_failed = TRUE]
  ELSE [efct_tx_complete(v,
          efct_tx_blocks(efct_tx_word(efct_tx_init(v),
                           efct_tx_pkt_header(v.fixed, len,
                                              efct_ctpio_threshold(threshold))),
                         iov),
          efct_ctpio_dma_id(v), len) EXCEPT !.last_ctpio_failed = FALSE]

\* di = (qs->added - 1) & q->mask
efct_ctpio_fallback_di(v) == (v.txq.added - 1) % (txq_mask + 1)

efct_ef_vi_ctpio_fallback(v, dma_id) ==
  [v EXCEPT
     !.ids[efct_ctpio_fallback_di(v)] = dma_id,
     !.rc = 0,
     !.bug = @ \cup (IF v.txq.added = v.txq.removed
                     THEN {"efct_ef_vi_ctpio_fallback: added == removed"} ELSE {})
               \cup (IF v.ids[efct_ctpio_fallback_di(v)] # EFCT_TX_POSTED_ID
                     THEN {"efct_ef_vi_ctpio_fallback: id is not EFCT_TX_POSTED_ID"}
                     ELSE {})]

\* vi->last_ctpio_failed = rc == -EAGAIN; return rc
efct_ctpio_fallback_retried(v) == [v EXCEPT !.last_ctpio_failed = (v.rc = -EAGAIN)]

\* a faulty fallback that posts the packet whether or not the CTPIO send queued it
efct_ef_vi_transmit_ctpio_fallback_resend(v, base, len, dma_id) ==
  efct_ctpio_fallback_retried(efct_ef_vi_transmit(v, base, len, dma_id))

efct_ef_vi_transmit_ctpio_fallback(v, base, len, dma_id) ==
  IF v.last_ctpio_failed
  THEN efct_ctpio_fallback_retried(efct_ef_vi_transmit(v, base, len, dma_id))
  ELSE efct_ef_vi_ctpio_fallback(v, dma_id)

efct_ef_vi_transmitv_ctpio_fallback(v, iov, dma_id) ==
  IF v.last_ctpio_failed
  THEN efct_ctpio_fallback_retried(efct_ef_vi_transmitv(v, iov, dma_id))
  ELSE efct_ef_vi_ctpio_fallback(v, dma_id)

efct_vi_start_transmit_warm(v) ==
  [v EXCEPT !.fixed.WARM_FLAG = 1,
            !.bug = @ \cup (IF v.fixed.WARM_FLAG = 0 THEN {}
                            ELSE {"efct_vi_start_transmit_warm: WARM_FLAG != 0"})]

efct_vi_stop_transmit_warm(v) ==
  [v EXCEPT !.fixed.WARM_FLAG = 0,
            !.bug = @ \cup (IF v.fixed.WARM_FLAG = 1 THEN {}
                            ELSE {"efct_vi_stop_transmit_warm: WARM_FLAG != 1"})]


(***************************************************************************)
(* 4.D  TX engine: the event ring and completion events.                   *)
(* An event is [phase, type, seq, ts_status, ptstamp, subtype, time_high,  *)
(* in_sync, is_set]; ptstamp is the pair of limbs <<bits 32.., bits 0..31>>.*)
(***************************************************************************)
NoEvent == [phase |-> 2, type |-> "NONE", seq |-> 0, ts_status |-> 0,
            ptstamp |-> <<0, 0>>, subtype |-> "NONE", time_high |-> 0,
            in_sync |-> 0, is_set |-> 0]

\* the ring as the driver hands it over: every byte 0xff
BlankEvent == [NoEvent EXCEPT !.phase = 1, !.type = "UNKNOWN"]

\* the bits of a uint32 evq_ptr that address the ring and select the phase
EvqLowBits(evq_ptr) == evq_ptr % (2 * (evq_mask + 1))

\* a faulty phase test that expects the phase of the other lap
efct_tx_get_event_other_lap(evq_ptr) ==
  IF evq_mem[BitAnd(EvqLowBits(evq_ptr), evq_mask) \div 8].phase =
       (IF BitAnd(EvqLowBits(evq_ptr), evq_mask + 1) # 0 THEN 0 ELSE 1)
  THEN evq_mem[BitAnd(EvqLowBits(evq_ptr), evq_mask) \div 8]
  ELSE NoEvent

efct_tx_get_event(evq_ptr) ==
  IF evq_mem[BitAnd(EvqLowBits(evq_ptr), evq_mask) \div 8].phase =
       (IF BitAnd(EvqLowBits(evq_ptr), evq_mask + 1) # 0 THEN 1 ELSE 0)
  THEN evq_mem[BitAnd(EvqLowBits(evq_ptr), evq_mask) \div 8]
  ELSE NoEvent

efct_grant_unsol_credit(clear_overflow, credit_seq) ==
  [GRANT_SEQ |-> BitAnd(credit_seq, unsol_credit_seq_mask),
   CLEAR_OVERFLOW |-> IF clear_overflow THEN 1 ELSE 0]

RECURSIVE efct_tx_retire(_, _)
\* the while loop of efct_tx_handle_event; BUG_ON(previous == added) stops it
efct_tx_retire(s, seq) ==
  IF BitAnd(s.txq.previous, seq_mask) = BitAnd(seq + 1, seq_mask) THEN s
  ELSE IF s.txq.previous = s.txq.added
       THEN [s EXCEPT !.bug = @ \cup {"tx_handle_event: previous == added"}]
       ELSE efct_tx_retire(
              [s EXCEPT !.txq.ct_removed = @ + descriptors[BitAnd(s.txq.previous, txq_mask)],
                        !.txq.previous = @ + 1],
              seq)

efct_tx_timestamp_event(s, event) ==
  [type |-> "TX_WITH_TIMESTAMP",
   ts_sec |-> s.evq.sync_timestamp_major +
              (IF event.ptstamp[1] = (BitAnd(s.evq.sync_timestamp_major, 255) + 1) % 256
               THEN 1 ELSE 0),
   ts_nsec |-> BitOr(Shr(event.ptstamp[2], ts_subnano_bits) -
                       BitAnd(Shr(event.ptstamp[2], ts_subnano_bits),
                              BitOr(EF_VI_SYNC_FLAG_CLOCK_SET, EF_VI_SYNC_FLAG_CLOCK_IN_SYNC)),
                     s.evq.sync_flags),
   rq_id |-> ids[BitAnd(s.txq.previous - 1, txq_mask)],
   flags |-> "CTPIO",
   q_id |-> 0]

\* a faulty event that reports the ring index of previous, not the counter
efct_tx_plain_event_ring_index(s) ==
  [type |-> "TX", desc_id |-> BitAnd(s.txq.previous, txq_mask), flags |-> "CTPIO",
   q_id |-> 0]

efct_tx_plain_event(s) ==
  [type |-> "TX", desc_id |-> s.txq.previous, flags |-> "CTPIO", q_id |-> 0]

\* a faulty handler that leaves a timestamped completion to ef_vi_transmit_unbundle
efct_tx_emit_without_removed(s, event) ==
  IF event.ts_status # 0
  THEN [s EXCEPT !.evs = Append(@, efct_tx_timestamp_event(s, event))]
  ELSE [s EXCEPT !.evs = Append(@, efct_tx_plain_event(s))]

efct_tx_emit(s, event) ==
  IF event.ts_status # 0
  THEN [s EXCEPT !.evs = Append(@, efct_tx_timestamp_event(s, event)),
                 !.txq.removed = @ + 1]
  ELSE [s EXCEPT !.evs = Append(@, efct_tx_plain_event(s))]

efct_tx_handle_event(s, event) == efct_tx_emit(efct_tx_retire(s, event.seq), event)

efct_tx_handle_error_event(s, event) ==
  [s EXCEPT !.txq.previous = @ + 1,
            !.evs = Append(@, [type |-> "TX_ERROR", q_id |-> 0, flags |-> 0,
                               desc_id |-> s.txq.previous + 1, subtype |-> 0])]

efct_tx_handle_control_event(s, event) ==
  CASE event.subtype = "ERROR" -> efct_tx_handle_error_event(s, event)
    [] event.subtype = "FLUSH" -> s
    [] event.subtype = "TIME_SYNC" ->
         [s EXCEPT !.evq.sync_timestamp_major = Shr(event.time_high, 16),
                   !.evq.sync_timestamp_minor = BitAnd(event.time_high, 65535),
                   !.evq.sync_flags =
                      BitOr(IF event.in_sync # 0 THEN EF_VI_SYNC_FLAG_CLOCK_IN_SYNC ELSE 0,
                            IF event.is_set # 0 THEN EF_VI_SYNC_FLAG_CLOCK_SET ELSE 0),
                   !.evq.unsol_credit_seq = @ + 1,
                   !.unsol_reg = efct_grant_unsol_credit(FALSE, s.evq.unsol_credit_seq + 1)]
    [] event.subtype = "UNSOL_OVERFLOW" ->
         [s EXCEPT !.evq.unsol_credit_seq = CI_CFG_TIME_SYNC_EVENT_EVQ_CAPACITY - 1,
                   !.unsol_reg = efct_grant_unsol_credit(TRUE,
                                    CI_CFG_TIME_SYNC_EVENT_EVQ_CAPACITY - 1)]
    [] OTHER -> s

RECURSIVE efct_poll_tx_loop_all(_, _, _)
\* a faulty loop that goes on after a TX event, up to evs_len events
efct_poll_tx_loop_all(s, base, evs_len) ==
  IF ~(Len(s.evs) - base < evs_len) THEN s
  ELSE IF efct_tx_get_event(s.evq.evq_ptr) = NoEvent THEN s
  ELSE CASE efct_tx_get_event(s.evq.evq_ptr).type = "TX" ->
              efct_poll_tx_loop_all(
                efct_tx_handle_event([s EXCEPT !.evq.evq_ptr = @ + 8],
                                     efct_tx_get_event(s.evq.evq_ptr)),
                base, evs_len)
         [] efct_tx_get_event(s.evq.evq_ptr).type = "CONTROL" ->
              efct_poll_tx_loop_all(
                efct_tx_handle_control_event([s EXCEPT !.evq.evq_ptr = @ + 8],
                                             efct_tx_get_event(s.evq.evq_ptr)),
                base, evs_len)
         [] OTHER ->
              efct_poll_tx_loop_all([s EXCEPT !.evq.evq_ptr = @ + 8], base, evs_len)

RECURSIVE efct_poll_tx_loop(_, _, _)
\* the while loop of efct_poll_tx; n_evs counts from base, where evs + n starts
efct_poll_tx_loop(s, base, evs_len) ==
  IF ~(Len(s.evs) - base < evs_len) THEN s
  ELSE IF efct_tx_get_event(s.evq.evq_ptr) = NoEvent THEN s
  ELSE CASE efct_tx_get_event(s.evq.evq_ptr).type = "TX" ->
              efct_tx_handle_event([s EXCEPT !.evq.evq_ptr = @ + 8],
                                   efct_tx_get_event(s.evq.evq_ptr))
         [] efct_tx_get_event(s.evq.evq_ptr).type = "CONTROL" ->
              efct_poll_tx_loop(
                efct_tx_handle_control_event([s EXCEPT !.evq.evq_ptr = @ + 8],
                                             efct_tx_get_event(s.evq.evq_ptr)),
                base, evs_len)
         [] OTHER ->
              efct_poll_tx_loop([s EXCEPT !.evq.evq_ptr = @ + 8], base, evs_len)

efct_poll_tx(s, evs_len) ==
  efct_poll_tx_loop(
    IF efct_tx_get_event(s.evq.evq_ptr - 8) = NoEvent
    THEN [s EXCEPT !.bug = @ \cup {"efct_poll_tx: event queue overflow"}]
    ELSE s,
    Len(s.evs), evs_len)



(***************************************************************************)
(* 4.C  RX engine: metadata headers and discard classification.            *)
(* A header is a record of its fields; the status and class fields carry   *)
(* the names of their values (OK is the zero value of a status field).     *)
(***************************************************************************)
L2Status == {"OK", "LEN_ERR", "FCS_ERR", "RSVD"}

L2Class == {"OTHER", "E2_0123VLAN", "RSVD"}

L3Class == {"IP4", "IP6", "OTHER", "RSVD"}

L4Class == {"TCP", "UDP", "OTHER", "RSVD"}

PlainHeader ==
  [l2_status |-> "OK", l3_status |-> 0, l4_status |-> 0,
   l2_class |-> "E2_0123VLAN", l3_class |-> "IP4", l4_class |-> "TCP",
   rollover |-> 0, sentinel |-> 0, length |-> 60, timestamp_status |-> 1]

DiscardFlags ==
  {"L4_CSUM_ERR", "L3_CSUM_ERR", "ETH_FCS_ERR", "ETH_LEN_ERR",
   "L2_CLASS_OTHER", "L3_CLASS_OTHER", "L4_CLASS_OTHER"}

\* the rx_discard_mask efct_vi_init installs
DefaultDiscardMask == {"L4_CSUM_ERR", "L3_CSUM_ERR", "ETH_FCS_ERR", "ETH_LEN_ERR"}

efct_ef_vi_receive_set_discards(discard_err_flags) == discard_err_flags \cap DiscardFlags

\* header->u64[0] & CHECK_FIELDS
CHECK_FIELDS(header) ==
  \/ header.l2_status # "OK"
  \/ header.l3_status # 0
  \/ header.l4_status # 0
  \/ header.rollover # 0

header_status_flags(header) ==
  (IF header.l2_status = "FCS_ERR" THEN {"ETH_FCS_ERR"} ELSE {})
  \cup (IF header.l2_status = "LEN_ERR" THEN {"ETH_LEN_ERR"} ELSE {})
  \cup (IF header.l3_class = "IP4" /\ header.l3_status # 0 THEN {"L3_CSUM_ERR"} ELSE {})
  \cup (IF header.l3_class = "IP6" /\ header.l3_status # 0 THEN {"L3_CSUM_ERR"} ELSE {})
  \cup (IF header.l4_class = "TCP" /\ header.l4_status # 0 THEN {"L4_CSUM_ERR"} ELSE {})
  \cup (IF header.l4_class = "UDP" /\ header.l4_status # 0 THEN {"L4_CSUM_ERR"} ELSE {})
  \cup (IF header.l4_class = "OTHER" THEN {"L4_CLASS_OTHER"} ELSE {})
  \cup (IF header.l3_class = "OTHER" THEN {"L3_CLASS_OTHER"} ELSE {})
  \cup (IF header.l2_class = "OTHER" THEN {"L2_CLASS_OTHER"} ELSE {})

\* the branch efct_poll_rx takes on a valid header, and the discard flags it reports
efct_rx_classify(header, mask) ==
  IF CHECK_FIELDS(header) /\
     (header.rollover # 0 \/ (header_status_flags(header) \cap mask) # {})
  THEN IF header.rollover # 0
       THEN [type |-> "ROLLOVER", flags |-> {}]
       ELSE [type |-> "RX_REF_DISCARD", flags |-> header_status_flags(header) \cap mask]
  ELSE [type |-> "RX_REF", flags |-> {}]

(***************************************************************************)
(* 4.B / 4.C  Superbuf descriptors, the resource manager's operations and  *)
(* the receive engine.  The operators work on a record r of the state a    *)
(* poll reads and writes: ptr, desc, rxq, sbufs, swq, bug, evs.            *)
(***************************************************************************)
RxqIxs == 0..(MaxRxqs - 1)

SbIxs == 0..(MaxSbufs - 1)

GlobalSbIxs == {q * CI_EFCT_MAX_SUPERBUFS + sb : q \in RxqIxs, sb \in SbIxs}

\* desc + ((qid * CI_EFCT_MAX_SUPERBUFS) | sbid)
efct_rx_desc_for_sb(qid, sbid) == BitOr(qid * CI_EFCT_MAX_SUPERBUFS, sbid)

\* desc + pkt_id_to_global_superbuf_ix(pkt_id)
efct_rx_desc(pkt_id) == pkt_id_to_global_superbuf_ix(pkt_id)

efct_rxq_is_active(q) == live[q].superbuf_pkts # 0

efct_rxq_need_rollover(p) == rxq_ptr_to_pkt_id(p.next) >= p.end

efct_rxq_need_config(r, q) == live[q].config_generation # r.rxq[q].config_generation

\* the header in superbuf memory at the slot of pkt_id, sb being the superbuf and ix
\* the slot: written in this traversal it carries the traversal's sentinel; not yet
\* written it carries the opposite one; beyond the capacity it is never written and
\* holds the zeroes the memory started with
efct_rx_header_at(sb, ix, capacity) ==
  IF ix < sb.wr
  THEN [(IF ix \in DOMAIN sb.special THEN sb.special[ix] ELSE PlainHeader)
        EXCEPT !.sentinel = sb.sentinel]
  ELSE IF ix < capacity
  THEN [PlainHeader EXCEPT !.sentinel = 1 - sb.sentinel]
  ELSE [PlainHeader EXCEPT !.sentinel = 0]

efct_rx_header(r, pkt_id) ==
  efct_rx_header_at(r.sbufs[efct_rx_desc(pkt_id)], pkt_id_to_index_in_superbuf(pkt_id),
                    live[pkt_id_to_rxq_ix(pkt_id)].superbuf_pkts)

NoHeader == [PlainHeader EXCEPT !.sentinel = 2]

\* a faulty test that takes every header read for a valid one
efct_rx_header_any_sentinel(header, next) == header

\* the sentinel test of efct_rx_next_header on the header read
efct_rx_header_if_valid(header, next) ==
  IF header.sentinel = rxq_ptr_to_sentinel(next) THEN header ELSE NoHeader

efct_rx_next_header(r, next) ==
  efct_rx_header_if_valid(efct_rx_header(r, rxq_ptr_to_pkt_id(next)), next)

\* a superbuf sequence number, an unsigned of 32 bits, as two 16-bit limbs
Seq32(n) == [hi |-> (n \div 65536) % 65536, lo |-> n % 65536]

\* k added to a 32-bit sequence number: the carry out of bit 31 is lost
Seq32Add(s, k) ==
  [hi |-> (s.hi + (s.lo + k) \div 65536) % 65536, lo |-> (s.lo + k) % 65536]

\* (rxq_ptr->next >> 32) + 1, computed in uint64_t: the carry out of bit 31 is kept
Seq64Succ(stored) ==
  [top |-> (stored.hi + (stored.lo + 1) \div 65536) \div 65536,
   hi |-> (stored.hi + (stored.lo + 1) \div 65536) % 65536,
   lo |-> (stored.lo + 1) % 65536]

\* the test of rx_rollover for a sequence gap, sbseq being widened to 64 bits
rx_rollover_sbseq_gap(sbseq, stored) ==
  [top |-> 0, hi |-> sbseq.hi, lo |-> sbseq.lo] # Seq64Succ(stored)

\* ops->next: the oldest superbuf published to the queue, or an error
ops_next(r, qid) ==
  IF r.swq[qid] = <<>>
  THEN [rc |-> -EAGAIN, sentinel |-> 0, sbseq |-> Seq32(0), r |-> r]
  ELSE [rc |-> Head(r.swq[qid]).sb,
        sentinel |-> Head(r.swq[qid]).sentinel,
        sbseq |-> Head(r.swq[qid]).sbseq,
        r |-> [r EXCEPT !.swq[qid] = Tail(@),
                        !.sbufs[efct_rx_desc_for_sb(qid, Head(r.swq[qid]).sb)].owner = "vi"]]

\* ops->free: the superbuf goes back to the resource manager
ops_free(r, qid, sb) ==
  [r EXCEPT !.sbufs[efct_rx_desc_for_sb(qid, sb)].owner = "rm",
            !.bug = IF r.sbufs[efct_rx_desc_for_sb(qid, sb)].owner = "vi" THEN @
                    ELSE @ \cup {"ops.free: superbuf not held by the VI"}]

efct_vi_rxpkt_release_dec(r, pkt_id) ==
  [r EXCEPT !.desc[efct_rx_desc(pkt_id)].refcnt = (@ - 1) % 65536,
            !.bug = IF r.desc[efct_rx_desc(pkt_id)].refcnt > 0 THEN @
                    ELSE @ \cup {"efct_vi_rxpkt_release: refcnt == 0"}]

\* the test of the decremented refcnt, d being the state after the decrement
efct_vi_rxpkt_release_free(d, pkt_id) ==
  IF d.desc[efct_rx_desc(pkt_id)].refcnt = 0
  THEN ops_free(d, pkt_id_to_rxq_ix(pkt_id), pkt_id_to_local_superbuf_ix(pkt_id))
  ELSE d

efct_vi_rxpkt_release(r, pkt_id) ==
  efct_vi_rxpkt_release_free(efct_vi_rxpkt_release_dec(r, pkt_id), pkt_id)

\* ++next on the uint32 local of rx_rollover: the carry out of bit 31 is lost
IncPtr32(next) ==
  IF next.lo = 65535
  THEN [next EXCEPT !.lo = 0, !.hi = (@ + 1) % 65536]
  ELSE [next EXCEPT !.lo = @ + 1]

\* next++ on the uint64 rxq_ptr->next: the carry out of bit 31 reaches the sbseq half
IncPtr64(next) ==
  IF next.lo = 65535 /\ next.hi = 65535
  THEN [next EXCEPT !.lo = 0, !.hi = 0, !.sbseq = Seq32Add(@, 1)]
  ELSE IncPtr32(next)

\* the tail of rx_rollover: store next and end, preload the descriptor
rx_rollover_store(r, qid, pkt_id, next, sbseq) ==
  [r EXCEPT
     !.ptr[qid].next = [sbseq |-> sbseq, hi |-> next.hi, lo |-> next.lo],
     !.ptr[qid].end = pkt_id + live[qid].superbuf_pkts,
     !.desc[efct_rx_desc(pkt_id)].refcnt = live[qid].superbuf_pkts % 65536,
     !.desc[efct_rx_desc(pkt_id)].superbuf_pkts = live[qid].superbuf_pkts % 65536,
     !.bug = @ \cup (IF live[qid].superbuf_pkts > 0 THEN {}
                     ELSE {"rx_rollover: superbuf_pkts == 0"})
               \cup (IF live[qid].superbuf_pkts < 2 ^ PKT_ID_PKT_BITS THEN {}
                     ELSE {"rx_rollover: superbuf_pkts >= 1 << PKT_ID_PKT_BITS"})]

\* a faulty rollover that starts a queue at the first header of its superbuf
rx_rollover_take_no_skip(r, qid, n) ==
  IF r.ptr[qid].end # 0 /\ rx_rollover_sbseq_gap(n.sbseq, r.ptr[qid].next.sbseq)
  THEN rx_rollover_store(
         [efct_vi_rxpkt_release(n.r, r.ptr[qid].prev)
            EXCEPT !.ptr[qid].prev = rollover_pkt_id(qid, n.rc)],
         qid, rollover_pkt_id(qid, n.rc),
         IncPtr32(OrSentinel(rollover_pkt_id(qid, n.rc), n.sentinel)),
         n.sbseq)
  ELSE rx_rollover_store(n.r, qid, rollover_pkt_id(qid, n.rc),
                         OrSentinel(rollover_pkt_id(qid, n.rc), n.sentinel),
                         n.sbseq)

\* a faulty rollover that keeps the reference of the packet lost to a sequence gap
rx_rollover_take_no_release(r, qid, n) ==
  IF r.ptr[qid].end = 0 \/ rx_rollover_sbseq_gap(n.sbseq, r.ptr[qid].next.sbseq)
  THEN rx_rollover_store([n.r EXCEPT !.ptr[qid].prev = rollover_pkt_id(qid, n.rc)],
                         qid, rollover_pkt_id(qid, n.rc),
                         IncPtr32(OrSentinel(rollover_pkt_id(qid, n.rc), n.sentinel)),
                         n.sbseq)
  ELSE rx_rollover_store(n.r, qid, rollover_pkt_id(qid, n.rc),
                         OrSentinel(rollover_pkt_id(qid, n.rc), n.sentinel),
                         n.sbseq)

\* rx_rollover after a successful ops->next, which returned n
rx_rollover_take(r, qid, n) ==
  IF r.ptr[qid].end = 0
  THEN rx_rollover_store([n.r EXCEPT !.ptr[qid].prev = rollover_pkt_id(qid, n.rc)],
                         qid, rollover_pkt_id(qid, n.rc),
                         IncPtr32(OrSentinel(rollover_pkt_id(qid, n.rc), n.sentinel)),
                         n.sbseq)
  ELSE IF rx_rollover_sbseq_gap(n.sbseq, r.ptr[qid].next.sbseq)
  THEN rx_rollover_store(
         [efct_vi_rxpkt_release(n.r, r.ptr[qid].prev)
            EXCEPT !.ptr[qid].prev = rollover_pkt_id(qid, n.rc)],
         qid, rollover_pkt_id(qid, n.rc),
         IncPtr32(OrSentinel(rollover_pkt_id(qid, n.rc), n.sentinel)),
         n.sbseq)
  ELSE rx_rollover_store(n.r, qid, rollover_pkt_id(qid, n.rc),
                         OrSentinel(rollover_pkt_id(qid, n.rc), n.sentinel),
                         n.sbseq)

\* rx_rollover once ops->next has returned n
rx_rollover_next(r, qid, n) ==
  IF n.rc < 0
  THEN [rc |-> n.rc, r |-> r]
  ELSE [rc |-> 0, r |-> rx_rollover_take(r, qid, n)]

\* returns [rc, r]
rx_rollover(r, qid) == rx_rollover_next(r, qid, ops_next(r, qid))

\* the ROLLOVER branch of efct_poll_rx for the packet pkt_id, nskipped being computed
efct_rx_hw_rollover_skip(r, qid, pkt_id, nskipped) ==
  [(IF (r.desc[efct_rx_desc(pkt_id)].refcnt - nskipped) % 65536 = 0
    THEN ops_free(r, qid, pkt_id_to_local_superbuf_ix(pkt_id))
    ELSE r)
   EXCEPT !.desc[efct_rx_desc(pkt_id)].refcnt = (@ - nskipped) % 65536,
          !.ptr[qid].end = 0,
          !.bug = @ \cup (IF nskipped > 0 THEN {} ELSE {"efct_poll_rx: nskipped <= 0"})
                    \cup (IF nskipped <= r.desc[efct_rx_desc(pkt_id)].refcnt THEN {}
                          ELSE {"efct_poll_rx: nskipped > refcnt"})]

\* a faulty ROLLOVER branch that forces the rollover but surrenders no reference
efct_rx_hw_rollover_keep_refs(r, qid, pkt_id) == [r EXCEPT !.ptr[qid].end = 0]

\* a faulty ROLLOVER branch that reports the header as a discard event
efct_rx_hw_rollover_reported(r, qid, pkt_id) ==
  [r EXCEPT !.ptr[qid].end = 0,
            !.evs = Append(@, [type |-> "RX_REF_DISCARD", len |-> 0, pkt_id |-> pkt_id,
                               q_id |-> r.rxq[qid].qid, flags |-> {}])]

\* a faulty ROLLOVER branch that takes next and prev to be in one superbuf always
efct_rx_hw_rollover_one_superbuf(r, qid, pkt_id) ==
  efct_rx_hw_rollover_skip(r, qid, pkt_id, r.ptr[qid].end - pkt_id)

efct_rx_hw_rollover(r, qid, pkt_id) ==
  IF pkt_id_to_local_superbuf_ix(rxq_ptr_to_pkt_id(r.ptr[qid].next)) =
       pkt_id_to_local_superbuf_ix(pkt_id)
  THEN efct_rx_hw_rollover_skip(r, qid, pkt_id, r.ptr[qid].end - pkt_id)
  ELSE efct_rx_hw_rollover_skip(
         ops_free(r, qid, pkt_id_to_local_superbuf_ix(rxq_ptr_to_pkt_id(r.ptr[qid].next))),
         qid, pkt_id, 1)

efct_rx_discard(qid, pkt_id, discard_flags, header) ==
  [type |-> "RX_REF_DISCARD", len |-> header.length, pkt_id |-> pkt_id,
   q_id |-> qid, flags |-> discard_flags]

efct_rx_ref(qid, pkt_id, header) ==
  [type |-> "RX_REF", len |-> header.length, pkt_id |-> pkt_id, q_id |-> qid]

\* a faulty end of the iteration that advances next and leaves prev behind
efct_rx_advance_next_only(r, qid, pkt_id, header, ev) ==
  [r EXCEPT !.evs = Append(@, ev),
            !.desc[efct_rx_desc(pkt_id)].final_ts_status = header.timestamp_status,
            !.ptr[qid].next = IncPtr64(@)]

\* the end of one iteration: stash the timestamp status, advance prev and next
efct_rx_advance(r, qid, pkt_id, header, ev) ==
  [r EXCEPT !.evs = Append(@, ev),
            !.desc[efct_rx_desc(pkt_id)].final_ts_status = header.timestamp_status,
            !.ptr[qid].prev = rxq_ptr_to_pkt_id(r.ptr[qid].next),
            !.ptr[qid].next = IncPtr64(@)]

RECURSIVE efct_poll_rx_loop(_, _, _, _)
\* one iteration of the for loop on a valid header, class being its classification
efct_poll_rx_step(r, qid, i, evs_len, header, pkt_id, class) ==
  CASE class.type = "ROLLOVER" -> efct_rx_hw_rollover(r, qid, pkt_id)
    [] class.type = "RX_REF_DISCARD" ->
         efct_poll_rx_loop(
           efct_rx_advance(r, qid, pkt_id, header,
             efct_rx_discard(r.rxq[qid].qid, pkt_id, class.flags, header)),
           qid, i + 1, evs_len)
    [] OTHER ->
         efct_poll_rx_loop(
           efct_rx_advance(r, qid, pkt_id, header,
             efct_rx_ref(r.rxq[qid].qid, pkt_id, header)),
           qid, i + 1, evs_len)

\* the body of the for loop once the header is fetched
efct_poll_rx_header(r, qid, i, evs_len, header) ==
  IF header = NoHeader THEN r
  ELSE efct_poll_rx_step(r, qid, i, evs_len, header, r.ptr[qid].prev,
                         efct_rx_classify(header, rx_discard_mask))

\* the for loop of efct_poll_rx, i iterations done
efct_poll_rx_loop(r, qid, i, evs_len) ==
  IF ~(i < evs_len) THEN r
  ELSE efct_poll_rx_header(r, qid, i, evs_len, efct_rx_next_header(r, r.ptr[qid].next))

\* a faulty loop bound that does not clamp evs_len to the rest of the superbuf
efct_poll_rx_events_unclamped(r, qid, evs_len) == efct_poll_rx_loop(r, qid, 0, evs_len)

\* efct_poll_rx once any rollover and configuration refresh are done
efct_poll_rx_events(r, qid, evs_len) ==
  efct_poll_rx_loop(r, qid, 0,
    CI_MIN(evs_len, r.ptr[qid].end - rxq_ptr_to_pkt_id(r.ptr[qid].next)))

\* a faulty poll that goes on to the headers after a failed refresh
efct_poll_rx_config_ignoring_failure(r, qid, evs_len, refresh_ok) ==
  IF efct_rxq_need_config(r, qid)
  THEN efct_poll_rx_events(
         [r EXCEPT !.rxq[qid].config_generation = live[qid].config_generation],
         qid, evs_len)
  ELSE efct_poll_rx_events(r, qid, evs_len)

\* efct_poll_rx after the rollover check; refresh_ok is the outcome of ops->refresh
efct_poll_rx_config(r, qid, evs_len, refresh_ok) ==
  IF efct_rxq_need_config(r, qid)
  THEN IF refresh_ok
       THEN efct_poll_rx_events(
              [r EXCEPT !.rxq[qid].config_generation = live[qid].config_generation],
              qid, evs_len)
       ELSE [r EXCEPT !.rxq[qid].config_generation = live[qid].config_generation]
  ELSE efct_poll_rx_events(r, qid, evs_len)

\* efct_poll_rx after the rollover check, roll being the result of rx_rollover
efct_poll_rx_rolled(r, qid, evs_len, refresh_ok, roll) ==
  IF roll.rc < 0 THEN r
  ELSE efct_poll_rx_config(roll.r, qid, evs_len, refresh_ok)

efct_poll_rx(r, qid, evs_len, refresh_ok) ==
  IF efct_rxq_need_rollover(r.ptr[qid])
  THEN efct_poll_rx_rolled(r, qid, evs_len, refresh_ok, rx_rollover(r, qid))
  ELSE efct_poll_rx_config(r, qid, evs_len, refresh_ok)

\* a faulty choice that takes the highest queue of the mask first
HighestQ(qs) == CHOOSE q \in qs : \A o \in qs : q >= o

\* __builtin_ffsll(qs) - 1: the lowest queue of the mask
LowestQ(qs) == CHOOSE q \in qs : \A o \in qs : q <= o

RECURSIVE efct_poll_rxqs(_, _, _, _)
\* the loop of efct_ef_eventq_poll over the bits of active_qs, lowest first; the
\* events of the poll are those appended to r.evs
efct_poll_rxqs(r, qs, evs_len, refresh_ok) ==
  IF qs = {} THEN r
  ELSE efct_poll_rxqs(efct_poll_rx(r, LowestQ(qs), evs_len - Len(r.evs), refresh_ok),
                      qs \ {LowestQ(qs)}, evs_len, refresh_ok)

\* the end of efct_ef_eventq_poll, r being the state after the RXQs are polled
efct_ef_eventq_poll_tx(r, evs_len) ==
  IF txq_mask # 0 THEN efct_poll_tx(r, evs_len - Len(r.evs)) ELSE r

efct_ef_eventq_poll(r, evs_len, refresh_ok) ==
  efct_ef_eventq_poll_tx(efct_poll_rxqs(r, active_qs, evs_len, refresh_ok), evs_len)

\* ops->available is defined outside this source tree; modelled from the
\* specification: true iff ops->next would succeed
ops_available(r, qid) == r.swq[qid] # <<>>

\* a faulty check that never reports a pending rollover
efct_rxq_check_event_unless_rollover(r, qid) ==
  IF ~efct_rxq_is_active(qid) THEN FALSE
  ELSE IF efct_rxq_need_rollover(r.ptr[qid]) THEN FALSE
  ELSE \/ efct_rxq_need_config(r, qid)
       \/ efct_rx_next_header(r, r.ptr[qid].next) # NoHeader

\* the userspace build
efct_rxq_check_event(r, qid) ==
  IF ~efct_rxq_is_active(qid) THEN FALSE
  ELSE IF efct_rxq_need_rollover(r.ptr[qid]) THEN ops_available(r, qid)
  ELSE \/ efct_rxq_need_config(r, qid)
       \/ efct_rx_next_header(r, r.ptr[qid].next) # NoHeader

\* for a VI with RX buffers (vi_rxq.mask != 0); the table has MaxRxqs entries
efct_rx_check_event(r) == \E i \in RxqIxs : efct_rxq_check_event(r, i)

efct_tx_check_event(r) == evq_mask # 0 /\ efct_tx_get_event(r.evq.evq_ptr) # NoEvent

efct_ef_eventq_check_event(r) == efct_tx_check_event(r) \/ efct_rx_check_event(r)

(***************************************************************************)
(* The transmit side as a state machine.                                   *)
(***************************************************************************)
purevars == <<arg, res>>

txvars == <<txq, descriptors, ids, evq, evq_mem, ctpio, unsol_reg, nic, txq_mask,
            efct_fixed_header, last_ctpio_failed, tx_pending, last_desc_id>>

rxvars == <<rxq_ptr, rx_desc, rxq, rx_discard_mask, active_qs, live, sbufs, swq, hwq, held>>

vars == <<purevars, txvars, rxvars, evs, rc, bug>>

TxLens == {56, 60}

DmaIds == {"aa"}

TxRing == 0..(TxRingSize - 1)

\* the transmit side of a VI whose queue state is q and whose descriptor ring is d
TxInitOf(mask, q, d) ==
  /\ txq = q
  /\ descriptors = d
  /\ ids = [i \in TxRing |-> EF_REQUEST_ID_MASK]
  /\ evq = [evq_ptr |-> 0, sync_timestamp_major |-> 0, sync_timestamp_minor |-> 0,
            sync_flags |-> 0,
            unsol_credit_seq |-> CI_CFG_TIME_SYNC_EVENT_EVQ_CAPACITY - 1]
  /\ evq_mem = [i \in 0..(EvqSize - 1) |-> BlankEvent]
  /\ ctpio = <<>>
  /\ unsol_reg = efct_grant_unsol_credit(FALSE, CI_CFG_TIME_SYNC_EVENT_EVQ_CAPACITY - 1)
  /\ nic = [evq_wr |-> 0, done |-> 0, failed |-> FALSE, other |-> 0]
  /\ txq_mask = mask
  /\ efct_fixed_header = [TIMESTAMP_FLAG |-> 1, WARM_FLAG |-> 0]
  /\ last_ctpio_failed = FALSE
  /\ tx_pending = <<>>
  /\ last_desc_id = 0

TxInit(mask) ==
  TxInitOf(mask,
           [added |-> 0, removed |-> 0, previous |-> 0, ct_added |-> 0, ct_removed |-> 0],
           [i \in TxRing |-> 0])

\* the per-VI state a transmit call works on
TxVi == [txq |-> txq, descriptors |-> descriptors, ids |-> ids, ctpio |-> ctpio,
         fixed |-> efct_fixed_header, rc |-> rc, last_ctpio_failed |-> last_ctpio_failed,
         bug |-> bug]

TxViAssign(v) ==
  /\ txq' = v.txq
  /\ descriptors' = v.descriptors
  /\ ids' = v.ids
  /\ ctpio' = v.ctpio
  /\ rc' = v.rc

\* ef_vi_transmit(vi, base, len, dma_id)
Transmit(len, dma_id) ==
  /\ txq_mask # 0
  /\ txq.added < MaxAdded
  /\ TxViAssign(efct_ef_vi_transmit(TxVi, Payload(len), len, dma_id))
  /\ bug' = bug \cup (IF efct_tx_ring_fits THEN {} ELSE {"efct_tx_check: ring too small"})
                \cup (IF txq.ct_added % EFCT_TX_ALIGNMENT # 0 /\ efct_tx_check(TxVi, len)
                      THEN {"efct_tx_init: offset not aligned"} ELSE {})
  /\ UNCHANGED <<purevars, rxvars, evq, evq_mem, unsol_reg, nic, txq_mask,
                 efct_fixed_header, last_ctpio_failed, tx_pending, last_desc_id, evs>>

RECURSIVE ef_vi_transmit_unbundle(_, _)
\* ef_vi_transmit_unbundle is defined outside this source tree; modelled from the
\* specification: removed advances up to the event's desc_id
ef_vi_transmit_unbundle(removed, desc_id) ==
  IF BitAnd(removed, txq_mask) = BitAnd(desc_id, txq_mask) THEN removed
  ELSE ef_vi_transmit_unbundle(removed + 1, desc_id)

\* the caller unbundles the oldest plain TX event it holds
Unbundle ==
  /\ tx_pending # <<>>
  /\ txq' = [txq EXCEPT !.removed = ef_vi_transmit_unbundle(@, Head(tx_pending))]
  /\ tx_pending' = Tail(tx_pending)
  /\ UNCHANGED <<purevars, rxvars, descriptors, ids, evq, evq_mem, ctpio, unsol_reg, nic,
                 txq_mask, efct_fixed_header, last_ctpio_failed, last_desc_id, evs, rc,
                 bug>>

(***************************************************************************)
(* The NIC: it completes posted packets in order and writes events to the  *)
(* ring with the phase of the current lap, never overrunning the reader.   *)
(***************************************************************************)
NicRoom ==
  /\ nic.evq_wr < MaxEvents
  /\ nic.evq_wr - (evq.evq_ptr \div 8) < EvqSize - 1

NicWrite(event) ==
  evq_mem' = [evq_mem EXCEPT ![nic.evq_wr % EvqSize] =
                [event EXCEPT !.phase = (nic.evq_wr \div EvqSize) % 2]]

NicFrame ==
  UNCHANGED <<purevars, rxvars, txq, descriptors, ids, evq, ctpio, unsol_reg, txq_mask,
              efct_fixed_header, last_ctpio_failed, tx_pending, last_desc_id, evs, rc,
              bug>>

\* a completion for the posted packets up to d; a timestamped one covers one packet
NicTxEvent(d, ts) ==
  /\ NicRoom
  /\ ~nic.failed
  /\ d - nic.done < seq_mask
  /\ ts = 1 => d = nic.done
  /\ NicWrite([NoEvent EXCEPT !.type = "TX", !.seq = BitAnd(d, seq_mask),
                              !.ts_status = ts, !.ptstamp = <<8, 400>>])
  /\ nic' = [nic EXCEPT !.evq_wr = @ + 1, !.done = d + 1]
  /\ NicFrame

\* the TXQ fails: after the error event the queue sees no further completion
NicErrorEvent ==
  /\ NicRoom
  /\ ~nic.failed
  /\ nic.other < MaxControl
  /\ NicWrite([NoEvent EXCEPT !.type = "CONTROL", !.subtype = "ERROR"])
  /\ nic' = [nic EXCEPT !.evq_wr = @ + 1, !.failed = TRUE, !.other = @ + 1]
  /\ NicFrame

NicControlEvent(subtype) ==
  /\ NicRoom
  /\ nic.other < MaxControl
  /\ NicWrite([NoEvent EXCEPT !.type = "CONTROL", !.subtype = subtype,
                              !.time_high = 7 * 65536 + 1, !.in_sync = 1, !.is_set = 1])
  /\ nic' = [nic EXCEPT !.evq_wr = @ + 1, !.other = @ + 1]
  /\ NicFrame

NicUnknownEvent ==
  /\ NicRoom
  /\ nic.other < MaxControl
  /\ NicWrite([NoEvent EXCEPT !.type = "UNKNOWN"])
  /\ nic' = [nic EXCEPT !.evq_wr = @ + 1, !.other = @ + 1]
  /\ NicFrame

(***************************************************************************)
(* The receive side as a state machine: the resource manager attaches      *)
(* queues and publishes superbufs, the NIC fills them with metadata, the   *)
(* caller polls and releases packets.                                      *)
(***************************************************************************)
\* the receive side of a VI that attaches to queues whose numbering of superbufs
\* stands at base
RxInitAt(base) ==
  /\ rxq_ptr = [q \in RxqIxs |->
                  [next |-> [sbseq |-> Seq32(0), hi |-> 0, lo |-> 0], prev |-> 0, end |-> 0]]
  /\ rx_desc = [g \in GlobalSbIxs |->
                  [refcnt |-> 0, superbuf_pkts |-> 0, final_ts_status |-> 0]]
  /\ rxq = [q \in RxqIxs |-> [qid |-> -1, config_generation |-> 0]]
  /\ rx_discard_mask = DefaultDiscardMask
  /\ active_qs = {}
  /\ live = [q \in RxqIxs |-> [superbuf_pkts |-> 0, config_generation |-> 0]]
  /\ sbufs = [g \in GlobalSbIxs |->
                [owner |-> "rm", sentinel |-> 0, wr |-> 0, special |-> <<>>]]
  /\ swq = [q \in RxqIxs |-> <<>>]
  /\ hwq = [q \in RxqIxs |-> [fill |-> <<>>, seq |-> 0, cont |-> FALSE, base |-> base]]
  /\ held = {}

RxInit == RxInitAt(Seq32(0))

RECURSIVE efct_vi_find_free_rxq_inactive_first(_, _)
\* a faulty scan that tests for an inactive entry before it compares the qid
efct_vi_find_free_rxq_inactive_first(ix, qid) ==
  IF ~(ix < MaxRxqs) THEN -ENOSPC
  ELSE IF ~efct_rxq_is_active(ix) THEN ix
  ELSE IF rxq[ix].qid = qid THEN -EALREADY
  ELSE efct_vi_find_free_rxq_inactive_first(ix + 1, qid)

RECURSIVE efct_vi_find_free_rxq_from(_, _)
\* the for loop of efct_vi_find_free_rxq from index ix on
efct_vi_find_free_rxq_from(ix, qid) ==
  IF ~(ix < MaxRxqs) THEN -ENOSPC
  ELSE IF rxq[ix].qid = qid THEN -EALREADY
  ELSE IF ~efct_rxq_is_active(ix) THEN ix
  ELSE efct_vi_find_free_rxq_from(ix + 1, qid)

efct_vi_find_free_rxq(qid) == efct_vi_find_free_rxq_from(0, qid)

\* efct_vi_start_rxq(vi, ix, qid), then the queue's live fields become visible
RxAttach(qid, pkts) ==
  /\ efct_vi_find_free_rxq(qid) >= 0
  /\ rxq' = [rxq EXCEPT ![efct_vi_find_free_rxq(qid)] =
                          [qid |-> qid, config_generation |-> 0]]
  /\ rxq_ptr' = [rxq_ptr EXCEPT ![efct_vi_find_free_rxq(qid)].end = 0]
  /\ live' = [live EXCEPT ![efct_vi_find_free_rxq(qid)].superbuf_pkts = pkts]
  /\ active_qs' = active_qs \cup {efct_vi_find_free_rxq(qid)}
  /\ UNCHANGED <<purevars, txvars, rx_desc, rx_discard_mask, sbufs, swq, hwq, held,
                 evs, rc, bug>>

\* the resource manager hands a free superbuf to the NIC and publishes it to the VI;
\* gap = 1 when the software RXQ dropped a superbuf for lack of a descriptor
RmPublish(q, sb, gap) ==
  /\ q \in active_qs
  /\ sbufs[efct_rx_desc_for_sb(q, sb)].owner = "rm"
  /\ hwq[q].seq + gap <= MaxSbSeq
  /\ sbufs' = [sbufs EXCEPT ![efct_rx_desc_for_sb(q, sb)] =
                 [owner |-> "hw", sentinel |-> 1 - @.sentinel, wr |-> 0, special |-> <<>>]]
  /\ swq' = [swq EXCEPT ![q] =
               Append(@, [sb |-> sb,
                          sentinel |-> 1 - sbufs[efct_rx_desc_for_sb(q, sb)].sentinel,
                          sbseq |-> Seq32Add(hwq[q].base, hwq[q].seq + gap)])]
  /\ hwq' = [hwq EXCEPT ![q].fill = Append(@, [sb |-> sb, gap |-> gap]),
                        ![q].seq = @ + gap + 1]
  /\ UNCHANGED <<purevars, txvars, rxq_ptr, rx_desc, rxq, rx_discard_mask, active_qs,
                 live, held, evs, rc, bug>>

CsumHeader == [PlainHeader EXCEPT !.l4_status = 1]

RolloverHeader == [PlainHeader EXCEPT !.rollover = 1]

RxHeaders == {PlainHeader, CsumHeader, RolloverHeader}

\* the NIC writes the next metadata header of the superbuf it is filling; a ROLLOVER
\* header ends the superbuf early, and stands in slot 0 only where the VI reads slot 0
NicRxWrite(q, h) ==
  /\ hwq[q].fill # <<>>
  /\ sbufs[efct_rx_desc_for_sb(q, Head(hwq[q].fill).sb)].wr < MaxFill
  /\ h.rollover # 0 =>
       \/ sbufs[efct_rx_desc_for_sb(q, Head(hwq[q].fill).sb)].wr > 0
       \/ hwq[q].cont /\ Head(hwq[q].fill).gap = 0
  /\ sbufs' = [sbufs EXCEPT ![efct_rx_desc_for_sb(q, Head(hwq[q].fill).sb)] =
                 [@ EXCEPT !.wr = @ + 1,
                           !.special = IF h = PlainHeader THEN @
                                       ELSE [i \in DOMAIN @ \cup
                                              {sbufs[efct_rx_desc_for_sb(q, Head(hwq[q].fill).sb)].wr}
                                             |-> IF i \in DOMAIN @ THEN @[i] ELSE h]]]
  /\ hwq' = IF h.rollover # 0 \/
               sbufs[efct_rx_desc_for_sb(q, Head(hwq[q].fill).sb)].wr + 1 =
                 live[q].superbuf_pkts
            THEN [hwq EXCEPT ![q].fill = Tail(@), ![q].cont = (h.rollover = 0)]
            ELSE hwq
  /\ UNCHANGED <<purevars, txvars, rxq_ptr, rx_desc, rxq, rx_discard_mask, active_qs,
                 live, swq, held, evs, rc, bug>>

\* the resource manager changes the queue's configuration
RmConfigChange(q) ==
  /\ q \in active_qs
  /\ live[q].config_generation < MaxGen
  /\ live' = [live EXCEPT ![q].config_generation = @ + 1]
  /\ UNCHANGED <<purevars, txvars, rxq_ptr, rx_desc, rxq, rx_discard_mask, active_qs,
                 sbufs, swq, hwq, held, evs, rc, bug>>

\* the per-VI state a poll or a release works on
PollVi == [txq |-> txq, evq |-> evq, unsol_reg |-> unsol_reg, bug |-> bug, evs |-> <<>>,
           ptr |-> rxq_ptr, desc |-> rx_desc, rxq |-> rxq, sbufs |-> sbufs, swq |-> swq]

\* efct_vi_rxpkt_release(vi, pkt_id) on a packet the caller holds
RxpktReleaseAssign(r) ==
  /\ rx_desc' = r.desc
  /\ sbufs' = r.sbufs
  /\ bug' = r.bug

RxpktRelease(pkt_id) ==
  /\ pkt_id \in held
  /\ held' = held \ {pkt_id}
  /\ RxpktReleaseAssign(efct_vi_rxpkt_release(PollVi, pkt_id))
  /\ UNCHANGED <<purevars, txvars, rxq_ptr, rxq, rx_discard_mask, active_qs, live, swq,
                 hwq, evs, rc>>

\* ef_vi_receive_set_discards(vi, discard_err_flags)
ReceiveSetDiscards(discard_err_flags) ==
  /\ rx_discard_mask' = efct_ef_vi_receive_set_discards(discard_err_flags)
  /\ rx_discard_mask' # rx_discard_mask
  /\ rc' = 0
  /\ UNCHANGED <<purevars, txvars, rxq_ptr, rx_desc, rxq, active_qs, live, sbufs, swq,
                 hwq, held, evs, bug>>

RxEventTypes == {"RX_REF", "RX_REF_DISCARD"}

Range(seq) == {seq[i] : i \in DOMAIN seq}

RECURSIVE PlainTxDescIds(_)
\* the desc_ids of the plain TX events of an event array, in order
PlainTxDescIds(es) ==
  IF es = <<>> THEN <<>>
  ELSE IF Head(es).type = "TX" THEN <<Head(es).desc_id>> \o PlainTxDescIds(Tail(es))
  ELSE PlainTxDescIds(Tail(es))

\* the packet ids an event array delivers
Delivered(es) == {e.pkt_id : e \in {x \in Range(es) : x.type \in RxEventTypes}}

\* the state after a poll that ended in r; the caller then holds the packets delivered
\* and the plain TX events awaiting ef_vi_transmit_unbundle
EventqPollState(r, tx_ids) ==
  /\ txq' = r.txq
  /\ evq' = r.evq
  /\ unsol_reg' = r.unsol_reg
  /\ rxq_ptr' = r.ptr
  /\ rx_desc' = r.desc
  /\ rxq' = r.rxq
  /\ sbufs' = r.sbufs
  /\ swq' = r.swq
  /\ evs' = r.evs
  /\ rc' = Len(r.evs)
  /\ bug' = r.bug \cup (IF Delivered(r.evs) \cap held = {} THEN {}
                        ELSE {"packet delivered while held"})
  /\ held' = held \cup Delivered(r.evs)
  /\ tx_pending' = tx_pending \o tx_ids
  /\ last_desc_id' = IF tx_ids = <<>> THEN last_desc_id ELSE tx_ids[Len(tx_ids)]
  /\ UNCHANGED <<descriptors, ids, evq_mem, ctpio, nic, txq_mask, efct_fixed_header,
                 last_ctpio_failed, rx_discard_mask, active_qs, live, hwq>>

EventqPollAssign(r, tx_ids) == EventqPollState(r, tx_ids) /\ UNCHANGED purevars

EventqPollDone(r) == EventqPollAssign(r, PlainTxDescIds(r.evs))

\* ef_eventq_poll(vi, evs, evs_len)
EventqPoll(evs_len, refresh_ok) ==
  EventqPollDone(efct_ef_eventq_poll(PollVi, evs_len, refresh_ok))

SuperbufPkts == 1..MaxSuperbufPkts

\* the outcomes ops->refresh can have in this poll: it is only called for a queue
\* whose cached config_generation is stale
RefreshOutcomes ==
  IF \E q \in active_qs : live[q].config_generation # rxq[q].config_generation
  THEN BOOLEAN ELSE {TRUE}

Qids == {0}

InitRx ==
  /\ arg = 0 /\ res = 0 /\ evs = <<>> /\ rc = 0 /\ bug = {}
  /\ TxInit(0)
  /\ RxInit

NextRx ==
  \/ \E qid \in Qids, pkts \in SuperbufPkts : RxAttach(qid, pkts)
  \/ \E q \in RxqIxs, sb \in SbIxs, gap \in {0, 1} : RmPublish(q, sb, gap)
  \/ \E q \in RxqIxs, h \in RxHeaders : NicRxWrite(q, h)
  \/ \E q \in RxqIxs : RmConfigChange(q)
  \/ \E pkt_id \in held : RxpktRelease(pkt_id)
  \/ \E evs_len \in 1..MaxEvs, refresh_ok \in RefreshOutcomes : EventqPoll(evs_len, refresh_ok)

SpecRx == InitRx /\ [][NextRx]_vars

InitTx ==
  /\ arg = 0 /\ res = 0 /\ evs = <<>> /\ rc = 0 /\ bug = {}
  /\ TxInit(TxRingSize - 1)
  /\ RxInit

NextTx ==
  \/ \E len \in TxLens, dma_id \in DmaIds : Transmit(len, dma_id)
  \/ Unbundle
  \/ \E d \in nic.done..(txq.added - 1), ts \in {0, 1} : NicTxEvent(d, ts)
  \/ NicErrorEvent
  \/ \E subtype \in {"FLUSH", "TIME_SYNC", "UNSOL_OVERFLOW"} : NicControlEvent(subtype)
  \/ NicUnknownEvent
  \/ \E evs_len \in 1..MaxEvs, refresh_ok \in RefreshOutcomes : EventqPoll(evs_len, refresh_ok)

SpecTx == InitTx /\ [][NextTx]_vars

(***************************************************************************)
(* Properties of the transmit side, checked under SpecTx.                  *)
(***************************************************************************)
TxCompletionTypes == {"TX", "TX_WITH_TIMESTAMP"}

\* C2 as stated: in every reachable state the bytes in the cut-through FIFO,
\* ct_added - ct_removed, are at most ct_fifo_bytes, and ct_added >= ct_removed.
C2_ct_fifo_bound ==
  /\ txq.ct_removed <= txq.ct_added
  /\ txq.ct_added - txq.ct_removed <= ct_fifo_bytes

\* C2 amended: a packet is admitted when its payload length fits the free space, and
\* then takes roundup(len + 8, 64) bytes, so the bytes in the FIFO stay a multiple of
\* 64 that is at most ct_fifo_bytes + EFCT_TX_HEADER_BYTES (one cache line less than
\* tx_fifo_bytes), and ct_added >= ct_removed.
C2_ct_fifo_bound_with_header ==
  /\ txq.ct_removed <= txq.ct_added
  /\ txq.ct_added % EFCT_TX_ALIGNMENT = 0
  /\ txq.ct_added - txq.ct_removed <= ct_fifo_bytes + EFCT_TX_HEADER_BYTES

\* C2's case: transmits have filled the FIFO beyond ct_fifo_bytes
C2_fifo_over_ct_fifo_bytes ==
  /\ txq.added >= 2
  /\ txq.ct_added - txq.ct_removed = ct_fifo_bytes + EFCT_TX_HEADER_BYTES

C4_previous_le_added == txq.previous <= txq.added

\* C5: completions retire descriptors in posting order: previous never decreases, it
\* passes only descriptors that were posted unless the queue has failed, and the
\* desc_ids of successive plain TX events never decrease.
C5_completion_order ==
  [][/\ txq'.previous >= txq.previous
     /\ last_desc_id' >= last_desc_id
     /\ \A i \in 1..Len(evs') : evs'[i].type = "TX" => evs'[i].desc_id = txq'.previous
     /\ \A i \in 1..(Len(tx_pending') - 1) : tx_pending'[i] <= tx_pending'[i + 1]
     /\ ~nic.failed => txq'.previous <= txq'.added]_vars

\* C5's case: two plain TX events were delivered one after the other
C5_two_plain_completions ==
  /\ Len(tx_pending) >= 2
  /\ tx_pending[1] < tx_pending[2]
  /\ last_desc_id = tx_pending[Len(tx_pending)]

\* C6: a poll consumes a ring entry only if its phase is the one evq_ptr expects, so
\* never an entry the NIC has not written in this lap; evq_ptr advances by 8 bytes per
\* entry consumed; a poll that reports nothing stops at an entry of the wrong phase.
C6_phase_protocol ==
  [][/\ evq'.evq_ptr % 8 = 0
     /\ evq'.evq_ptr >= evq.evq_ptr
     /\ evq'.evq_ptr <= 8 * nic.evq_wr
     /\ \A k \in (evq.evq_ptr \div 8)..((evq'.evq_ptr \div 8) - 1) :
          evq_mem[k % EvqSize].phase = (k \div EvqSize) % 2
     /\ (evq'.evq_ptr # evq.evq_ptr /\ evs' = <<>>) =>
          efct_tx_get_event(evq'.evq_ptr) = NoEvent]_vars

\* C6's case: the reader is in the second lap of the ring, where the expected phase
\* has flipped, and stands at an entry left over from the first lap
C6_second_lap ==
  /\ evq.evq_ptr > evq_mask + 1
  /\ evq.evq_ptr = 8 * nic.evq_wr
  /\ evq_mem[(evq.evq_ptr \div 8) % EvqSize].type # "UNKNOWN"

\* C7: the events of one poll hold at most one TX or TX_WITH_TIMESTAMP event, and it is
\* the last one; the poll consumed no ring entry after it and left previous as the
\* event reports it.
C7_one_tx_per_poll ==
  /\ \A i \in 1..Len(evs) : evs[i].type \in TxCompletionTypes => i = Len(evs)
  /\ \A i \in 1..Len(evs) : evs[i].type = "TX" => evs[i].desc_id = txq.previous
  /\ (\E i \in 1..Len(evs) : evs[i].type \in TxCompletionTypes) =>
       evq_mem[((evq.evq_ptr \div 8) - 1) % EvqSize].type = "TX"

\* C7's case: a poll returned on a TX event while the next ring entry, another
\* completion, was already valid
C7_poll_returned_on_tx ==
  /\ evs # <<>>
  /\ evs[Len(evs)].type \in TxCompletionTypes
  /\ efct_tx_get_event(evq.evq_ptr).type = "TX"

(***************************************************************************)
(* Properties of the receive side.                                         *)
(***************************************************************************)
\* the packets of superbuf g the caller holds
HeldIn(g) == {p \in held : efct_rx_desc(p) = g}

\* the packets of superbuf g that poll has yet to deliver or skip: those from prev on
\* in prev's superbuf, and all of the superbuf next has rolled into
Pending(g) ==
  IF rxq_ptr[g \div CI_EFCT_MAX_SUPERBUFS].end = 0 THEN 0
  ELSE IF efct_rx_desc(rxq_ptr[g \div CI_EFCT_MAX_SUPERBUFS].prev) = g
  THEN rx_desc[g].superbuf_pkts -
         pkt_id_to_index_in_superbuf(rxq_ptr[g \div CI_EFCT_MAX_SUPERBUFS].prev)
  ELSE IF efct_rx_desc(rxq_ptr_to_pkt_id(rxq_ptr[g \div CI_EFCT_MAX_SUPERBUFS].next)) = g
  THEN rx_desc[g].superbuf_pkts
  ELSE 0

\* C1: refcount conservation.  No superbuf is freed twice and no refcnt is taken
\* below 0; a superbuf the VI has taken from ops.next and not yet freed has a refcnt
\* equal to the packets of it the caller holds plus those poll has yet to deliver,
\* which is positive, so it is freed exactly when the last of them is released or
\* skipped; a packet the caller holds lies in a superbuf the VI still has.
C1_refcount_conservation ==
  /\ "ops.free: superbuf not held by the VI" \notin bug
  /\ "efct_vi_rxpkt_release: refcnt == 0" \notin bug
  /\ "efct_poll_rx: nskipped > refcnt" \notin bug
  /\ "packet delivered while held" \notin bug
  /\ \A g \in GlobalSbIxs :
       sbufs[g].owner = "vi" =>
         /\ rx_desc[g].refcnt = Cardinality(HeldIn(g)) + Pending(g)
         /\ rx_desc[g].refcnt > 0
  /\ \A p \in held : sbufs[efct_rx_desc(p)].owner = "vi"

\* C1's case: the NIC ended a superbuf with a ROLLOVER header in its first slot; the
\* VI had taken it, freed it unread with its preloaded refcnt, surrendered the last
\* packet of the superbuf before, and with every delivered packet released the VI
\* has no superbuf left
C1_superbuf_returned ==
  /\ held = {}
  /\ \A h \in GlobalSbIxs : sbufs[h].owner # "vi"
  /\ \E g \in GlobalSbIxs :
       /\ sbufs[g].owner = "rm"
       /\ 0 \in DOMAIN sbufs[g].special
       /\ sbufs[g].special[0].rollover = 1
       /\ rx_desc[g].refcnt = rx_desc[g].superbuf_pkts
       /\ rx_desc[g].refcnt > 0

\* the superbuf index field of the packet id of next
NextSb(p) == pkt_id_to_global_superbuf_ix(rxq_ptr_to_pkt_id(p.next))

\* a poll of queue q stays within one superbuf: it takes at most one superbuf from
\* ops.next; next then lies in that superbuf, or else in the superbuf it was in, and
\* does not pass end
PollWithinSuperbuf(q) ==
  /\ Len(swq'[q]) >= Len(swq[q]) - 1
  /\ Len(swq'[q]) < Len(swq[q]) =>
       NextSb(rxq_ptr'[q]) = efct_rx_desc_for_sb(q, Head(swq[q]).sb)
  /\ (Len(swq'[q]) = Len(swq[q]) /\ rxq_ptr'[q].next # rxq_ptr[q].next) =>
       NextSb(rxq_ptr'[q]) = NextSb(rxq_ptr[q])
  /\ rxq_ptr'[q].end # 0 => rxq_ptr_to_pkt_id(rxq_ptr'[q].next) <= rxq_ptr'[q].end

EdgeSuperbufPkts == {2 ^ PKT_ID_PKT_BITS - 1, 2 ^ PKT_ID_PKT_BITS}

\* the assertions that have fired on the way when the build keeps none of them
EdgeBug(pkts) ==
  IF pkts < 2 ^ PKT_ID_PKT_BITS THEN {}
  ELSE {"rx_rollover: superbuf_pkts >= 1 << PKT_ID_PKT_BITS",
        "efct_vi_rxpkt_release: refcnt == 0"}

RxInitEdge(pkts) ==
  /\ rxq_ptr = [q \in RxqIxs |->
                  IF q = 0
                  THEN [next |-> [sbseq |-> Seq32(0), hi |-> OrSentinel(pkts - 1, 1).hi,
                                  lo |-> OrSentinel(pkts - 1, 1).lo],
                        prev |-> pkts - 2, end |-> pkts]
                  ELSE [next |-> [sbseq |-> Seq32(0), hi |-> 0, lo |-> 0],
                        prev |-> 0, end |-> 0]]
  /\ rx_desc = [g \in GlobalSbIxs |->
                  IF g = 0
                  THEN [refcnt |-> 2, superbuf_pkts |-> pkts % 65536,
                        final_ts_status |-> 1]
                  ELSE [refcnt |-> 0, superbuf_pkts |-> 0, final_ts_status |-> 0]]
  /\ rxq = [q \in RxqIxs |-> [qid |-> IF q = 0 THEN 0 ELSE -1, config_generation |-> 0]]
  /\ rx_discard_mask = DefaultDiscardMask
  /\ active_qs = {0}
  /\ live = [q \in RxqIxs |->
               [superbuf_pkts |-> IF q = 0 THEN pkts ELSE 0, config_generation |-> 0]]
  /\ sbufs = [g \in GlobalSbIxs |->
                IF g = 0
                THEN [owner |-> "vi", sentinel |-> 1, wr |-> pkts, special |-> <<>>]
                ELSE [owner |-> "rm", sentinel |-> 0, wr |-> 0, special |-> <<>>]]
  /\ swq = [q \in RxqIxs |-> <<>>]
  /\ hwq = [q \in RxqIxs |->
              [fill |-> <<>>, seq |-> IF q = 0 THEN 1 ELSE 0, cont |-> q = 0,
               base |-> Seq32(0)]]
  /\ held = {}

InitRxEdge ==
  /\ arg = 0 /\ res = 0 /\ evs = <<>> /\ rc = 0
  /\ TxInit(0)
  /\ \/ RxInit /\ bug = {}
     \/ \E pkts \in EdgeSuperbufPkts : RxInitEdge(pkts) /\ bug = EdgeBug(pkts)

SpecRxEdge == InitRxEdge /\ [][NextRx]_vars

(***************************************************************************)
(* The packet-id codec as a function of its inputs.                        *)
(***************************************************************************)
SbSamples == {0, 1, CI_EFCT_MAX_SUPERBUFS \div 2, CI_EFCT_MAX_SUPERBUFS - 1}

PktSamples == {0, 1, 2 ^ (PKT_ID_PKT_BITS - 1), 2 ^ PKT_ID_PKT_BITS - 1}

\* the id of packet pkt of superbuf sb of queue qid: rx_rollover's base, advanced once
\* per packet by next++
pkt_id_of(qid, sb, pkt) == rollover_pkt_id(qid, sb) + pkt

CodecResult(id, sentinel) ==
  [id |-> id,
   rxq_ix |-> pkt_id_to_rxq_ix(id),
   local_sb |-> pkt_id_to_local_superbuf_ix(id),
   global_sb |-> pkt_id_to_global_superbuf_ix(id),
   index |-> pkt_id_to_index_in_superbuf(id),
   in_range |-> pkt_id_in_range(id),
   ptr_id |-> rxq_ptr_to_pkt_id(OrSentinel(id, sentinel)),
   ptr_id_set |-> rxq_ptr_to_pkt_id(OrSentinel(id, 1)),
   ptr_sentinel |-> rxq_ptr_to_sentinel(OrSentinel(id, sentinel))]

InitCodec ==
  /\ arg \in [rxq : 0..(EF_VI_MAX_EFCT_RXQS - 1), sb : SbSamples, pkt : PktSamples,
              sentinel : {0, 1}]
  /\ res = <<>>
  /\ evs = <<>> /\ rc = 0 /\ bug = {}
  /\ TxInit(0)
  /\ RxInit

CodecApply ==
  /\ res = <<>>
  /\ res' = CodecResult(pkt_id_of(arg.rxq, arg.sb, arg.pkt), arg.sentinel)
  /\ UNCHANGED <<arg, txvars, rxvars, evs, rc, bug>>

NextCodec == CodecApply

SpecCodec == InitCodec /\ [][NextCodec]_vars

\* C10: for all (rxq, sb, pkt) the extraction functions return rxq, sb and pkt from
\* the packet id, which is below 2^30, and the sentinel put on bit 31 of an rxq
\* pointer changes neither the packet id read back from it nor is it lost.
C10_pkt_id_round_trip ==
  res # <<>> =>
    /\ res.rxq_ix = arg.rxq
    /\ res.local_sb = arg.sb
    /\ res.index = arg.pkt
    /\ res.id < 2 ^ 30
    /\ res.in_range
    /\ res.ptr_id = res.id
    /\ res.ptr_id_set = res.id
    /\ res.ptr_sentinel = arg.sentinel

\* C10's case: the largest packet id, with the sentinel set, has been decoded
C10_largest_pkt_id_decoded ==
  /\ res # <<>>
  /\ arg.rxq = EF_VI_MAX_EFCT_RXQS - 1
  /\ arg.sb = CI_EFCT_MAX_SUPERBUFS - 1
  /\ arg.pkt = 2 ^ PKT_ID_PKT_BITS - 1
  /\ arg.sentinel = 1
  /\ res.id = 2 ^ 30 - 1

(***************************************************************************)
(* Discard classification: one poll of a queue whose first superbuf holds  *)
(* one header, over the values of its fields and the discard masks.        *)
(***************************************************************************)
DiscardHeaders ==
  {[PlainHeader EXCEPT !.l2_status = s2, !.l3_status = s3, !.l4_status = s4,
                       !.l2_class = c2, !.l3_class = c3, !.l4_class = c4,
                       !.sentinel = 1] :
     s2 \in L2Status, s3 \in {0, 1}, s4 \in {0, 1},
     c2 \in L2Class, c3 \in L3Class, c4 \in L4Class}

DiscardMasks ==
  {{}, DefaultDiscardMask, DiscardFlags, DefaultDiscardMask \cup {"L4_CLASS_OTHER"},
   {"L3_CLASS_OTHER"}, {"L2_CLASS_OTHER", "ETH_FCS_ERR", "NOT_A_DISCARD_FLAG"}}

\* the queue is attached, its first superbuf published and two headers written, the
\* second one being header; the discard mask is the one efct_vi_init installs
RxInitDiscard(header) ==
  /\ rxq_ptr = [q \in RxqIxs |->
                  [next |-> [sbseq |-> Seq32(0), hi |-> 0, lo |-> 0], prev |-> 0, end |-> 0]]
  /\ rx_desc = [g \in GlobalSbIxs |->
                  [refcnt |-> 0, superbuf_pkts |-> 0, final_ts_status |-> 0]]
  /\ rxq = [q \in RxqIxs |-> [qid |-> IF q = 0 THEN 0 ELSE -1, config_generation |-> 0]]
  /\ rx_discard_mask = DefaultDiscardMask
  /\ active_qs = {0}
  /\ live = [q \in RxqIxs |->
               [superbuf_pkts |-> IF q = 0 THEN 2 ELSE 0, config_generation |-> 0]]
  /\ sbufs = [g \in GlobalSbIxs |->
                IF g = 0
                THEN [owner |-> "hw", sentinel |-> 1, wr |-> 2,
                      special |-> IF header = PlainHeader THEN <<>>
                                  ELSE [i \in {1} |-> header]]
                ELSE [owner |-> "rm", sentinel |-> 0, wr |-> 0, special |-> <<>>]]
  /\ swq = [q \in RxqIxs |->
              IF q = 0 THEN <<[sb |-> 0, sentinel |-> 1, sbseq |-> Seq32(0)]>> ELSE <<>>]
  /\ hwq = [q \in RxqIxs |->
              [fill |-> <<>>, seq |-> IF q = 0 THEN 1 ELSE 0, cont |-> q = 0,
               base |-> Seq32(0)]]
  /\ held = {}

InitDiscard ==
  /\ arg \in [header : DiscardHeaders]
  /\ res = 0 /\ evs = <<>> /\ rc = 0 /\ bug = {}
  /\ TxInit(0)
  /\ RxInitDiscard(arg.header)

\* the caller sets the discard mask before it polls
DiscardSetMask(discard_err_flags) ==
  /\ rxq_ptr[0].end = 0
  /\ ReceiveSetDiscards(discard_err_flags)

\* the first poll of the queue
DiscardPoll ==
  /\ rxq_ptr[0].end = 0
  /\ EventqPoll(1, TRUE)

NextDiscard ==
  \/ \E discard_err_flags \in DiscardMasks : DiscardSetMask(discard_err_flags)
  \/ DiscardPoll

SpecDiscard == InitDiscard /\ [][NextDiscard]_vars

\* the flag set of the table of section 4.C for a header
DiscardTable(header) ==
  (IF header.l2_status = "FCS_ERR" THEN {"ETH_FCS_ERR"} ELSE {})
  \cup (IF header.l2_status = "LEN_ERR" THEN {"ETH_LEN_ERR"} ELSE {})
  \cup (IF header.l3_class \in {"IP4", "IP6"} /\ header.l3_status = 1
        THEN {"L3_CSUM_ERR"} ELSE {})
  \cup (IF header.l4_class \in {"TCP", "UDP"} /\ header.l4_status = 1
        THEN {"L4_CSUM_ERR"} ELSE {})
  \cup (IF header.l4_class = "OTHER" THEN {"L4_CLASS_OTHER"} ELSE {})
  \cup (IF header.l3_class = "OTHER" THEN {"L3_CLASS_OTHER"} ELSE {})
  \cup (IF header.l2_class = "OTHER" THEN {"L2_CLASS_OTHER"} ELSE {})

\* C9 as stated: for a valid header without ROLLOVER, poll emits RX_REF_DISCARD with
\* the flags of the table masked by rx_discard_mask when they are not empty, and
\* RX_REF otherwise.
C9_discard_classification ==
  rxq_ptr[0].end # 0 =>
    /\ Len(evs) = 1
    /\ IF DiscardTable(arg.header) \cap rx_discard_mask # {}
       THEN /\ evs[1].type = "RX_REF_DISCARD"
            /\ evs[1].flags = DiscardTable(arg.header) \cap rx_discard_mask
       ELSE evs[1].type = "RX_REF"

(***************************************************************************)
(* The transmit entry points as a state machine: the caller posts with     *)
(* transmit, transmitv or a CTPIO send followed by its fallback, and       *)
(* toggles warm mode.  res records the latest call, arg the CTPIO send     *)
(* whose fallback is still due; each call starts from an empty aperture    *)
(* log, so that ctpio holds the words the latest call wrote.               *)
(***************************************************************************)
TxIovs == {<<Payload(56)>>, <<SubSeq(Payload(60), 1, 13), SubSeq(Payload(60), 14, 60)>>}

RECURSIVE IovBytes(_)
\* the bytes of an iovec array, in order
IovBytes(iov) == IF iov = <<>> THEN <<>> ELSE Head(iov) \o IovBytes(Tail(iov))

FallbackDmaIds == {"bb"}

CtpioThresholds == {64, 16250}

\* the packets the caller posts through the transmit entry points
ApiMaxAdded == 3

NoCall == [op |-> "none", len |-> 0, dma_id |-> EF_REQUEST_ID_MASK, n |-> 0]

NoCtpio == [op |-> "idle", iov |-> <<>>, added |-> 0, admitted |-> FALSE]

Called(op, len, dma_id) == res' = [op |-> op, len |-> len, dma_id |-> dma_id, n |-> 1 - res.n]

TxCall == [TxVi EXCEPT !.ctpio = <<>>]

TxApiAssign(v) ==
  /\ TxViAssign(v)
  /\ last_ctpio_failed' = v.last_ctpio_failed
  /\ efct_fixed_header' = v.fixed
  /\ bug' = v.bug

TxApiFrame ==
  UNCHANGED <<rxvars, evq, evq_mem, unsol_reg, nic, txq_mask, tx_pending, last_desc_id, evs>>

\* ef_vi_transmit(vi, base, len, dma_id)
TransmitCall(len, dma_id) ==
  /\ arg.op # "ctpio"
  /\ txq.added < ApiMaxAdded
  /\ TxApiAssign(efct_ef_vi_transmit(TxCall, Payload(len), len, dma_id))
  /\ Called("transmit", len, dma_id)
  /\ arg' = NoCtpio
  /\ TxApiFrame

\* ef_vi_transmitv(vi, iov, iov_len, dma_id)
Transmitv(iov, dma_id) ==
  /\ arg.op # "ctpio"
  /\ txq.added < ApiMaxAdded
  /\ TxApiAssign(efct_ef_vi_transmitv(TxCall, iov, dma_id))
  /\ Called("transmitv", IovLen(iov), dma_id)
  /\ arg' = NoCtpio
  /\ TxApiFrame

\* ef_vi_transmitv_ctpio(vi, len, iov, iov_len, threshold), after which the caller
\* makes the fallback call next if owing
TransmitvCtpioOwing(iov, threshold, owing) ==
  /\ arg.op # "ctpio"
  /\ txq.added < ApiMaxAdded
  /\ TxApiAssign(efct_ef_vi_transmitv_ctpio(TxCall, IovLen(iov), iov, threshold))
  /\ Called("transmitv_ctpio", IovLen(iov), efct_ctpio_dma_id(TxVi))
  /\ arg' = IF ~owing THEN NoCtpio
            ELSE [op |-> "ctpio", iov |-> iov, added |-> txq.added,
                  admitted |-> efct_tx_check(TxVi, IovLen(iov))]
  /\ TxApiFrame

\* outside warm mode the caller owes the fallback call next
TransmitvCtpio(iov, threshold) ==
  TransmitvCtpioOwing(iov, threshold, ~tx_warm_active(TxVi))

\* the fallback is due again after it returned -EAGAIN
FallbackDue(v) == IF v.rc = -EAGAIN THEN [arg EXCEPT !.op = "retry"] ELSE NoCtpio

\* ef_vi_transmit_ctpio_fallback(vi, dma_addr, len, dma_id) for the packet of the send
TransmitCtpioFallback(dma_id) ==
  /\ arg.op \in {"ctpio", "retry"}
  /\ TxApiAssign(efct_ef_vi_transmit_ctpio_fallback(TxCall, IovBytes(arg.iov),
                                                    IovLen(arg.iov), dma_id))
  /\ Called("transmit_ctpio_fallback", IovLen(arg.iov), dma_id)
  /\ arg' = FallbackDue(efct_ef_vi_transmit_ctpio_fallback(TxCall, IovBytes(arg.iov),
                                                           IovLen(arg.iov), dma_id))
  /\ TxApiFrame

\* ef_vi_transmitv_ctpio_fallback(vi, dma_iov, dma_iov_len, dma_id)
TransmitvCtpioFallback(dma_id) ==
  /\ arg.op \in {"ctpio", "retry"}
  /\ TxApiAssign(efct_ef_vi_transmitv_ctpio_fallback(TxCall, arg.iov, dma_id))
  /\ Called("transmitv_ctpio_fallback", IovLen(arg.iov), dma_id)
  /\ arg' = FallbackDue(efct_ef_vi_transmitv_ctpio_fallback(TxCall, arg.iov, dma_id))
  /\ TxApiFrame

\* ef_vi_start_transmit_warm(vi)
StartTransmitWarm ==
  /\ arg.op = "idle"
  /\ ~tx_warm_active(TxVi)
  /\ TxApiAssign(efct_vi_start_transmit_warm(TxVi))
  /\ Called("start_transmit_warm", 0, EF_REQUEST_ID_MASK)
  /\ arg' = arg
  /\ TxApiFrame

\* ef_vi_stop_transmit_warm(vi)
StopTransmitWarm ==
  /\ arg.op = "idle"
  /\ tx_warm_active(TxVi)
  /\ TxApiAssign(efct_vi_stop_transmit_warm(TxVi))
  /\ Called("stop_transmit_warm", 0, EF_REQUEST_ID_MASK)
  /\ arg' = arg
  /\ TxApiFrame

InitTxApi ==
  /\ arg = NoCtpio /\ res = NoCall /\ evs = <<>> /\ rc = 0 /\ bug = {}
  /\ TxInit(TxRingSize - 1)
  /\ RxInit

NextTxApi ==
  \/ \E len \in TxLens, dma_id \in DmaIds : TransmitCall(len, dma_id)
  \/ \E iov \in TxIovs, dma_id \in DmaIds : Transmitv(iov, dma_id)
  \/ \E iov \in TxIovs, threshold \in CtpioThresholds : TransmitvCtpio(iov, threshold)
  \/ \E dma_id \in FallbackDmaIds : TransmitCtpioFallback(dma_id)
  \/ \E dma_id \in FallbackDmaIds : TransmitvCtpioFallback(dma_id)
  \/ StartTransmitWarm
  \/ StopTransmitWarm
  \/ Unbundle
  \/ \E d \in nic.done..(txq.added - 1) : NicTxEvent(d, 0)
  \/ arg.op # "ctpio" /\ EventqPoll(MaxEvs, TRUE)

SpecTxApi == InitTxApi /\ [][NextTxApi]_vars

(***************************************************************************)
(* C11: back-pressure.  transmit and transmitv return -EAGAIN exactly when *)
(* ef_vi_transmit_space_bytes is less than the total length, and then      *)
(* write no word to the aperture and leave the counters, the ring          *)
(* descriptors and the ids unchanged; otherwise they return 0 and added    *)
(* grows by exactly 1.                                                     *)
(***************************************************************************)
C11_back_pressure ==
  [][(res' # res /\ res'.op \in {"transmit", "transmitv"}) =>
       IF ef_vi_transmit_space_bytes(TxVi) < res'.len
       THEN /\ rc' = -EAGAIN
            /\ ctpio' = <<>>
            /\ UNCHANGED <<txq, descriptors, ids>>
       ELSE /\ rc' = 0
            /\ txq'.added = txq.added + 1
            /\ ctpio' # <<>>]_vars

\* a vectored send was refused for lack of FIFO space while the ring had free slots
C11_transmitv_refused ==
  /\ res.op = "transmitv"
  /\ rc = -EAGAIN
  /\ ctpio = <<>>
  /\ txq.added - txq.removed < TxRingSize
  /\ txq.ct_added - txq.ct_removed > 0

(***************************************************************************)
(* C14: a CTPIO send plus its fallback queues the packet exactly once      *)
(* (warm mode off).  If the send was admitted, last_ctpio_failed is false, *)
(* the pair adds one descriptor, and the fallback writes nothing to the    *)
(* aperture, returns 0 and replaces EFCT_TX_POSTED_ID in                   *)
(* ids[(added - 1) & mask] by dma_id.  If it was refused, the send wrote   *)
(* nothing and set last_ctpio_failed, the fallback re-invokes transmit,    *)
(* and last_ctpio_failed is then true iff that transmit returned -EAGAIN,  *)
(* so that a later fallback retries and the packet is never queued twice.  *)
(***************************************************************************)
FallbackOps == {"transmit_ctpio_fallback", "transmitv_ctpio_fallback"}

\* the CTPIO send itself, outside warm mode
CtpioSendStep ==
  (res' # res /\ res'.op = "transmitv_ctpio" /\ ~tx_warm_active(TxVi)) =>
    IF efct_tx_check(TxVi, res'.len)
    THEN /\ ~last_ctpio_failed'
         /\ txq'.added = txq.added + 1
         /\ ids'[BitAnd(txq.added, txq_mask)] = EFCT_TX_POSTED_ID
         /\ ctpio' # <<>>
         /\ arg'.op = "ctpio" /\ arg'.admitted
    ELSE /\ last_ctpio_failed'
         /\ ctpio' = <<>>
         /\ UNCHANGED <<txq, descriptors, ids>>
         /\ arg'.op = "ctpio" /\ ~arg'.admitted

\* the fallback after an admitted send
FallbackOverwriteStep ==
  (res' # res /\ res'.op \in FallbackOps /\ arg.op = "ctpio" /\ arg.admitted) =>
    /\ rc' = 0
    /\ ctpio' = <<>>
    /\ ~last_ctpio_failed'
    /\ txq.added = arg.added + 1
    /\ ids[BitAnd(txq.added - 1, txq_mask)] = EFCT_TX_POSTED_ID
    /\ ids' = [ids EXCEPT ![BitAnd(txq.added - 1, txq_mask)] = res'.dma_id]
    /\ UNCHANGED <<txq, descriptors, bug>>
    /\ arg'.op = "idle"

\* the fallback after a refused send, and every later retry of it
FallbackRetryStep ==
  (res' # res /\ res'.op \in FallbackOps /\ ~(arg.op = "ctpio" /\ arg.admitted)) =>
    /\ last_ctpio_failed
    /\ txq.added = arg.added
    /\ rc' = (IF ef_vi_transmit_space_bytes(TxVi) < res'.len THEN -EAGAIN ELSE 0)
    /\ last_ctpio_failed' = (rc' = -EAGAIN)
    /\ IF rc' = -EAGAIN
       THEN /\ ctpio' = <<>>
            /\ UNCHANGED <<txq, descriptors, ids>>
            /\ arg'.op = "retry"
       ELSE /\ txq'.added = arg.added + 1
            /\ ids' = [ids EXCEPT ![BitAnd(arg.added, txq_mask)] = res'.dma_id]
            /\ ctpio' # <<>>
            /\ arg'.op = "idle"

C14_ctpio_fallback_once ==
  [][CtpioSendStep /\ FallbackOverwriteStep /\ FallbackRetryStep]_vars

\* a refused CTPIO send whose fallback was retried until transmit accepted the packet
C14_fallback_retry_queued ==
  /\ res.op \in FallbackOps
  /\ rc = 0
  /\ ctpio # <<>>
  /\ ~last_ctpio_failed
  /\ ids[BitAnd(txq.added - 1, txq_mask)] \in FallbackDmaIds

(***************************************************************************)
(* C15: warm sends.  As claimed: while warm mode is active every packet    *)
(* queued by transmit, transmitv or transmitv_ctpio is recorded in the     *)
(* ring with the invalid request id EF_REQUEST_ID_MASK and its header      *)
(* carries WARM_FLAG = 1; after stop_transmit_warm headers carry           *)
(* WARM_FLAG = 0 and ids are recorded normally.                            *)
(***************************************************************************)
SendOps == {"transmit", "transmitv", "transmitv_ctpio"}

\* the step of a send that queued its packet
Queued == res' # res /\ res'.op \in SendOps /\ txq'.added = txq.added + 1

\* the id a send that queued its packet stored in the ring
QueuedId == ids'[BitAnd(txq.added, txq_mask)]

\* the header word a send that queued its packet wrote to the aperture
QueuedHeader == ctpio'[1].val

C15_warm_ids_invalidated ==
  [][Queued =>
       IF tx_warm_active(TxVi)
       THEN QueuedHeader.WARM_FLAG = 1 /\ QueuedId = EF_REQUEST_ID_MASK
       ELSE /\ QueuedHeader.WARM_FLAG = 0
            /\ QueuedId = (IF res'.op = "transmitv_ctpio" THEN EFCT_TX_POSTED_ID
                           ELSE res'.dma_id)]_vars

(***************************************************************************)
(* C15, as the code has it: start_transmit_warm sets WARM_FLAG and         *)
(* stop_transmit_warm clears it; every header carries the current          *)
(* WARM_FLAG; only transmitv_ctpio invalidates the id in warm mode         *)
(* (EF_REQUEST_ID_MASK instead of EFCT_TX_POSTED_ID), while transmit and   *)
(* transmitv record the caller's dma_id whether or not warm mode is        *)
(* active.                                                                 *)
(***************************************************************************)
C15_warm_ctpio_id_invalidated ==
  [][/\ Queued =>
          /\ QueuedHeader.WARM_FLAG = efct_fixed_header.WARM_FLAG
          /\ QueuedId = (IF res'.op # "transmitv_ctpio" THEN res'.dma_id
                         ELSE IF tx_warm_active(TxVi) THEN EF_REQUEST_ID_MASK
                         ELSE EFCT_TX_POSTED_ID)
          /\ UNCHANGED efct_fixed_header
     /\ (res' # res /\ res'.op = "start_transmit_warm") =>
          efct_fixed_header.WARM_FLAG = 0 /\ efct_fixed_header'.WARM_FLAG = 1
     /\ (res' # res /\ res'.op = "stop_transmit_warm") =>
          efct_fixed_header.WARM_FLAG = 1 /\ efct_fixed_header'.WARM_FLAG = 0]_vars

\* a warm transmit recorded under the caller's dma_id
C15_warm_transmit_keeps_id ==
  /\ res.op \in {"transmit", "transmitv"}
  /\ rc = 0
  /\ tx_warm_active(TxVi)
  /\ ctpio[1].val.WARM_FLAG = 1
  /\ ids[BitAnd(txq.added - 1, txq_mask)] \in DmaIds

(***************************************************************************)
(* C16: a timestamped TX completion retires exactly one in-flight record.  *)
(* A poll that handles a TX event with TIMESTAMP_STATUS = 1 advances       *)
(* previous by exactly 1 and removed by exactly 1, with no unbundle call,  *)
(* and reports the id of that one descriptor; so the poll keeps            *)
(* removed <= previous, and keeps removed = previous when it held before.  *)
(* A poll that delivers no timestamped completion leaves removed           *)
(* unchanged.                                                              *)
(***************************************************************************)
\* a poll that consumed at least one entry of the event ring
TxPolled == evq'.evq_ptr # evq.evq_ptr

TimestampedIn(es) == {i \in DOMAIN es : es[i].type = "TX_WITH_TIMESTAMP"}

ErrorsIn(es) == {i \in DOMAIN es : es[i].type = "TX_ERROR"}

C19_error_event_no_fixup ==
  [][(TxPolled /\ ErrorsIn(evs') # {}) =>
       /\ Cardinality(ErrorsIn(evs')) = 1
       /\ evq'.evq_ptr > evq.evq_ptr
       /\ txq' = txq]_vars

(***************************************************************************)
(* C17: hardware rollover is reported upward as an event.  As claimed:     *)
(* when poll_rx consumes a valid-sentinel header whose ROLLOVER flag is    *)
(* set, it writes an RX_REF_DISCARD event for it into the output array     *)
(* and counts it in the return value.                                      *)
(***************************************************************************)
\* a poll that met a ROLLOVER header on queue q: only that branch clears a non-zero end
HwRolloverStep(q) == rxq_ptr[q].end # 0 /\ rxq_ptr'[q].end = 0

\* the events of an array for the packet pkt_id
EventsFor(es, pkt_id) ==
  {i \in DOMAIN es : es[i].type \in RxEventTypes /\ es[i].pkt_id = pkt_id}

C17_rollover_reported_as_event ==
  [][\A q \in RxqIxs :
       HwRolloverStep(q) =>
         \E i \in EventsFor(evs', rxq_ptr'[q].prev) : evs'[i].type = "RX_REF_DISCARD"]_vars

(***************************************************************************)
(* C17, as the code has it: poll_rx writes no event for a ROLLOVER header. *)
(* It gives up the references of the packets the hardware skipped, sets    *)
(* end = 0 so that the next poll rolls over, and returns the number of     *)
(* events written before the header; the packet the header belongs to      *)
(* (prev) is not delivered, and no return code signals the rollover.       *)
(***************************************************************************)
C17_rollover_without_event ==
  [][\A q \in RxqIxs :
       HwRolloverStep(q) =>
         /\ EventsFor(evs', rxq_ptr'[q].prev) = {}
         /\ rc' = Len(evs')
         /\ rc' >= 0
         /\ efct_rxq_need_rollover(rxq_ptr'[q])]_vars

\* a poll delivered a packet and then met a ROLLOVER header
C17_rollover_after_event ==
  \E q \in RxqIxs :
    /\ efct_rxq_is_active(q)
    /\ rxq_ptr[q].end = 0
    /\ evs # <<>>
    /\ rc = Len(evs)
    /\ evs[Len(evs)].type \in RxEventTypes
    /\ pkt_id_to_rxq_ix(evs[Len(evs)].pkt_id) = q
    /\ EventsFor(evs, rxq_ptr[q].prev) = {}

(***************************************************************************)
(* efct_vi_find_free_rxq as a function of the RXQ table: the table is      *)
(* drawn from the entries a slot can hold (never started; started and      *)
(* live; started with live superbuf_pkts = 0), arg is the hardware qid     *)
(* asked for and res the value returned.                                   *)
(***************************************************************************)
TableQids == {0, 1, 2}

\* the states of one slot: its qid and its live superbuf_pkts
TableSlots ==
  {[qid |-> -1, superbuf_pkts |-> 0]} \cup
  [qid : TableQids, superbuf_pkts : {0, MaxSuperbufPkts}]

\* the state after construction, but for the RXQ table
RxInitTable(table) ==
  /\ rxq_ptr = [q \in RxqIxs |->
                  [next |-> [sbseq |-> Seq32(0), hi |-> 0, lo |-> 0], prev |-> 0, end |-> 0]]
  /\ rx_desc = [g \in GlobalSbIxs |->
                  [refcnt |-> 0, superbuf_pkts |-> 0, final_ts_status |-> 0]]
  /\ rxq = [q \in RxqIxs |-> [qid |-> table[q].qid, config_generation |-> 0]]
  /\ rx_discard_mask = DefaultDiscardMask
  /\ active_qs = {q \in RxqIxs : table[q].superbuf_pkts # 0}
  /\ live = [q \in RxqIxs |->
               [superbuf_pkts |-> table[q].superbuf_pkts, config_generation |-> 0]]
  /\ sbufs = [g \in GlobalSbIxs |->
                [owner |-> "rm", sentinel |-> 0, wr |-> 0, special |-> <<>>]]
  /\ swq = [q \in RxqIxs |-> <<>>]
  /\ hwq = [q \in RxqIxs |-> [fill |-> <<>>, seq |-> 0, cont |-> FALSE, base |-> Seq32(0)]]
  /\ held = {}

InitFindFree ==
  /\ arg \in TableQids
  /\ res = [done |-> FALSE, rc |-> 0]
  /\ evs = <<>> /\ rc = 0 /\ bug = {}
  /\ TxInit(0)
  /\ \E table \in [RxqIxs -> TableSlots] : RxInitTable(table)

FindFreeApply ==
  /\ ~res.done
  /\ res' = [done |-> TRUE, rc |-> efct_vi_find_free_rxq(arg)]
  /\ UNCHANGED <<arg, txvars, rxvars, evs, rc, bug>>

NextFindFree == FindFreeApply

SpecFindFree == InitFindFree /\ [][NextFindFree]_vars

\* the entries that carry the hardware qid asked for
Carrying == {ix \in RxqIxs : rxq[ix].qid = arg}

\* the entries whose queue is inactive
Inactive == {ix \in RxqIxs : live[ix].superbuf_pkts = 0}

Lowest(S) == CHOOSE ix \in S : \A o \in S : ix <= o

(***************************************************************************)
(* C20: RXQ table allocation errors.  As claimed: for any table contents   *)
(* efct_vi_find_free_rxq(qid) returns -EALREADY whenever some entry        *)
(* carries qid; otherwise the lowest index whose queue is inactive; and    *)
(* -ENOSPC exactly when no entry carries qid and every entry is active.    *)
(***************************************************************************)
C20_find_free_rxq_any_table ==
  res.done =>
    res.rc = (IF Carrying # {} THEN -EALREADY
              ELSE IF Inactive # {} THEN Lowest(Inactive)
              ELSE -ENOSPC)

(***************************************************************************)
(* C20, as the code has it: the scan stops at the lowest entry that either *)
(* carries qid (-EALREADY) or is inactive (its index), the qid being       *)
(* compared first; -ENOSPC exactly when no entry carries qid and every     *)
(* entry is active.  -EALREADY is therefore returned exactly when an entry *)
(* carrying qid has no inactive entry below it.                            *)
(***************************************************************************)
C20_find_free_rxq_first_match ==
  res.done =>
    /\ res.rc = (IF Carrying \cup Inactive = {} THEN -ENOSPC
                 ELSE IF Lowest(Carrying \cup Inactive) \in Carrying THEN -EALREADY
                 ELSE Lowest(Carrying \cup Inactive))
    /\ res.rc = -ENOSPC <=> (Carrying = {} /\ Inactive = {})
    /\ res.rc = -EALREADY <=>
         \E ix \in Carrying : \A o \in Inactive : ix <= o

\* an entry carries qid, but a lower, inactive entry is handed out
C20_inactive_below_carrying ==
  /\ res.done
  /\ Carrying # {}
  /\ res.rc >= 0
  /\ res.rc \in Inactive
  /\ \A ix \in Carrying : res.rc < ix

(***************************************************************************)
(* The whole VI as a state machine: two RXQs are attached and fed by the   *)
(* resource manager and the NIC, the caller posts a packet, and polls.     *)
(***************************************************************************)
\* superbufs the resource manager publishes to the RXQs of the VI in all
ViMaxSbufs == 2
\* packets the caller posts
ViMaxAdded == 1
\* largest evs_len passed to a poll of the VI
ViMaxEvs == 3

ViHeaders == {PlainHeader, RolloverHeader}

RECURSIVE Published(_)
\* the superbufs published so far to the RXQs from index q upwards
Published(q) == IF q = MaxRxqs THEN 0 ELSE hwq[q].seq + Published(q + 1)

\* ef_eventq_poll(vi, evs, evs_len); res records the outcome ops->refresh had
ViPoll(evs_len, refresh_ok) ==
  /\ EventqPollState(efct_ef_eventq_poll(PollVi, evs_len, refresh_ok),
                     PlainTxDescIds(efct_ef_eventq_poll(PollVi, evs_len, refresh_ok).evs))
  /\ res' = [refresh_ok |-> refresh_ok]
  /\ arg' = arg

InitVi ==
  /\ arg = 0 /\ res = [refresh_ok |-> TRUE] /\ evs = <<>> /\ rc = 0 /\ bug = {}
  /\ TxInit(TxRingSize - 1)
  /\ RxInit

NextVi ==
  \/ \E qid \in RxqIxs : RxAttach(qid, MaxSuperbufPkts)
  \/ \E q \in RxqIxs, sb \in SbIxs :
       /\ Published(0) < ViMaxSbufs
       /\ RmPublish(q, sb, 0)
  \/ \E q \in RxqIxs, h \in ViHeaders : NicRxWrite(q, h)
  \/ \E q \in RxqIxs : RmConfigChange(q)
  \/ \E dma_id \in DmaIds :
       /\ txq.added < ViMaxAdded
       /\ Transmit(EFCT_TX_ALIGNMENT - EFCT_TX_HEADER_BYTES, dma_id)
  \/ \E d \in nic.done..(txq.added - 1) : NicTxEvent(d, 0)
  \/ \E evs_len \in 1..ViMaxEvs, refresh_ok \in RefreshOutcomes :
       ViPoll(evs_len, refresh_ok)

SpecVi == InitVi /\ [][NextVi]_vars

(***************************************************************************)
(* C13: eventq_check_event misses no work that eventq_poll would do.  It   *)
(* returns true iff the TX ring has a phase-valid entry at evq_ptr or some *)
(* active RXQ has (rollover pending and a superbuf available) or (no       *)
(* rollover pending and (config refresh pending or a valid-sentinel header *)
(* at next)); whenever it returns false, an immediately following          *)
(* eventq_poll returns 0 and changes no RXQ pointer, evq_ptr or TX         *)
(* counter.                                                                 *)
(***************************************************************************)
\* the entry of the event ring at evq_ptr carries the phase of the reader's lap
TxEntryValid ==
  evq_mem[(evq.evq_ptr \div 8) % EvqSize].phase = ((evq.evq_ptr \div 8) \div EvqSize) % 2

RxqHasWork(q) ==
  IF rxq_ptr_to_pkt_id(rxq_ptr[q].next) >= rxq_ptr[q].end
  THEN swq[q] # <<>>
  ELSE \/ live[q].config_generation # rxq[q].config_generation
       \/ efct_rx_next_header(PollVi, rxq_ptr[q].next).sentinel =
            rxq_ptr_to_sentinel(rxq_ptr[q].next)

\* a poll that ended in r returned 0 and moved nothing
PollIdle(r) ==
  /\ r.evs = <<>>
  /\ r.ptr = rxq_ptr
  /\ r.evq.evq_ptr = evq.evq_ptr
  /\ r.txq = txq

C13_check_event_misses_nothing ==
  /\ active_qs = {q \in RxqIxs : live[q].superbuf_pkts # 0}
  /\ efct_ef_eventq_check_event(PollVi) <=>
       (TxEntryValid \/ \E q \in active_qs : RxqHasWork(q))
  /\ ~efct_ef_eventq_check_event(PollVi) =>
       \A evs_len \in 1..ViMaxEvs, refresh_ok \in RefreshOutcomes :
         PollIdle(efct_ef_eventq_poll(PollVi, evs_len, refresh_ok))

\* nothing to do although both queues wait for a superbuf: one has consumed its
\* superbuf to the end, the other has never had one
C13_idle_waiting_for_superbuf ==
  /\ ~efct_ef_eventq_check_event(PollVi)
  /\ active_qs = RxqIxs
  /\ \E q \in RxqIxs : rxq_ptr[q].end # 0 /\ efct_rxq_need_rollover(rxq_ptr[q])
  /\ \E q \in RxqIxs : rxq_ptr[q].end = 0
  /\ txq.added > 0
  /\ rc = 0 /\ evs = <<>>

(***************************************************************************)
(* C12: eventq_poll(evs, evs_len) returns a count n with 0 <= n <= evs_len *)
(* and writes only evs[0..n); it polls the RXQs whose bits are set in      *)
(* *active_qs in increasing index order, each exactly once, and then the   *)
(* TX event ring with the remaining capacity, so that the output is RX     *)
(* events grouped by increasing RXQ index followed by TX-ring events.      *)
(***************************************************************************)
\* the place of an event in the output: the index of its RXQ, or after all RXQs
EvRank(e) == IF e.type \in RxEventTypes THEN pkt_id_to_rxq_ix(e.pkt_id) ELSE MaxRxqs

RECURSIVE PollAscending(_, _, _, _)
\* poll_rx on each active queue from index q upwards, once each, then poll_tx, each
\* with the capacity the calls before it left
PollAscending(r, q, evs_len, refresh_ok) ==
  IF q = MaxRxqs
  THEN IF txq_mask # 0 THEN efct_poll_tx(r, evs_len - Len(r.evs)) ELSE r
  ELSE PollAscending(IF q \in active_qs
                     THEN efct_poll_rx(r, q, evs_len - Len(r.evs), refresh_ok)
                     ELSE r,
                     q + 1, evs_len, refresh_ok)

\* r is the outcome of eventq_poll(evs, evs_len)
PollInOrder(r, evs_len, refresh_ok) ==
  /\ Len(r.evs) >= 0
  /\ Len(r.evs) <= evs_len
  /\ \A i, j \in DOMAIN r.evs : i < j => EvRank(r.evs[i]) <= EvRank(r.evs[j])
  /\ r = PollAscending(PollVi, 0, evs_len, refresh_ok)

C12_poll_order ==
  \A evs_len \in 1..ViMaxEvs, refresh_ok \in RefreshOutcomes :
    PollInOrder(efct_ef_eventq_poll(PollVi, evs_len, refresh_ok), evs_len, refresh_ok)

\* one poll returned an event of RXQ 0, then one of RXQ 1, then a TX completion
C12_rx_rx_tx ==
  /\ rc = 3
  /\ Len(evs) = 3
  /\ EvRank(evs[1]) = 0
  /\ EvRank(evs[2]) = 1
  /\ evs[3].type = "TX"

(***************************************************************************)
(* C18: refresh failure yields no events for that queue this round.  As    *)
(* claimed: if the live config generation differs from the cached one and  *)
(* ops.refresh fails, poll_rx returns 0 for that queue without changing    *)
(* next or prev.                                                           *)
(***************************************************************************)
\* the active queues whose cached config_generation is stale
Stale == {q \in active_qs : live[q].config_generation # rxq[q].config_generation}

\* poll_rx on queue q gets as far as ops->refresh: no rollover is pending, or the
\* pending one finds a superbuf
RefreshCalled(q) == q \in Stale /\ (efct_rxq_need_rollover(rxq_ptr[q]) => swq[q] # <<>>)

\* r is the outcome of poll_rx on queue q
NoEventsSamePlace(r, q) ==
  /\ r.evs = <<>>
  /\ r.ptr[q].next = rxq_ptr[q].next
  /\ r.ptr[q].prev = rxq_ptr[q].prev

RefreshFailed(r, q) ==
  /\ r.evs = <<>>
  /\ r.rxq[q].config_generation = live[q].config_generation
  /\ IF efct_rxq_need_rollover(rxq_ptr[q])
     THEN /\ r.ptr = rx_rollover(PollVi, q).r.ptr
          /\ r.swq[q] = Tail(swq[q])
          /\ r.ptr[q].next # rxq_ptr[q].next
     ELSE /\ r.ptr = rxq_ptr
          /\ r.swq = swq /\ r.desc = rx_desc /\ r.sbufs = sbufs

RECURSIVE PollFresh(_, _, _)
\* poll_rx on each active queue that is not stale, in increasing order, then poll_tx
PollFresh(r, q, evs_len) ==
  IF q = MaxRxqs
  THEN IF txq_mask # 0 THEN efct_poll_tx(r, evs_len - Len(r.evs)) ELSE r
  ELSE PollFresh(IF q \in active_qs \ Stale
                 THEN efct_poll_rx(r, q, evs_len - Len(r.evs), TRUE)
                 ELSE r,
                 q + 1, evs_len)

\* r is the outcome of eventq_poll when ops->refresh fails, f that of polling only
\* the queues that are not stale
RestPolled(r, f) ==
  /\ r.evs = f.evs
  /\ r.txq = f.txq
  /\ r.evq = f.evq
  /\ \A q \in RxqIxs \ Stale : r.ptr[q] = f.ptr[q]
  /\ \A i \in DOMAIN r.evs : EvRank(r.evs[i]) \notin Stale
  /\ Len(r.evs) >= 0

MaxStreamLen == 17

StreamCalls == 2

StreamLens == (0..MaxStreamLen) \cup {100}

StreamArgs ==
  {[len |-> n, c1 |-> c1, c2 |-> c2] : n \in StreamLens, c1 \in StreamLens, c2 \in StreamLens}

\* the iovec array of a payload cut at c1 and c2
StreamIov(a) ==
  <<SubSeq(Payload(a.len), 1, a.c1), SubSeq(Payload(a.len), a.c1 + 1, a.c2),
    SubSeq(Payload(a.len), a.c2 + 1, a.len)>>

NoStream == [op |-> "none", n |-> 0]

StreamCalled(op) == res' = [op |-> op, n |-> res.n + 1]

\* ef_vi_transmit(vi, base, len, dma_id) on the whole payload
StreamTransmit(dma_id) ==
  /\ res.n < StreamCalls
  /\ TxApiAssign(efct_ef_vi_transmit(TxCall, Payload(arg.len), arg.len, dma_id))
  /\ StreamCalled("transmit")
  /\ arg' = arg
  /\ TxApiFrame

\* ef_vi_transmitv(vi, iov, iov_len, dma_id) on the payload's fragments
StreamTransmitv(dma_id) ==
  /\ res.n < StreamCalls
  /\ TxApiAssign(efct_ef_vi_transmitv(TxCall, StreamIov(arg), dma_id))
  /\ StreamCalled("transmitv")
  /\ arg' = arg
  /\ TxApiFrame

InitStream ==
  /\ arg \in {a \in StreamArgs : a.c1 <= a.c2 /\ a.c2 <= a.len}
  /\ res = NoStream /\ evs = <<>> /\ rc = 0 /\ bug = {}
  /\ TxInit(TxRingSize - 1)
  /\ RxInit

NextStream ==
  \/ \E dma_id \in DmaIds : StreamTransmit(dma_id)
  \/ \E dma_id \in DmaIds : StreamTransmitv(dma_id)

SpecStream == InitStream /\ [][NextStream]_vars

\* a transmit or transmitv call that was admitted
StreamSent == res'.n # res.n /\ rc' = 0

\* the 64-bit words that hold the header and len payload bytes
StreamWords(len) == 1 + (len + 7) \div 8

(***************************************************************************)
(* C21 as stated in scenario S1: on a fresh VI transmit(dma_id = 0xAA,     *)
(* len = 100) performs 14 aperture word writes including padding,          *)
(* increases ct_added by 128, makes added 1 and records ring[0].len = 128  *)
(* and ids[0] = 0xAA.                                                      *)
(***************************************************************************)
C21_s1_fourteen_words ==
  (res = [op |-> "transmit", n |-> 1] /\ arg.len = 100) =>
     /\ Len(ctpio) = 14
     /\ txq.ct_added = 128
     /\ txq.added = 1
     /\ descriptors[0] = 128
     /\ ids[0] = "aa"

(***************************************************************************)
(* C21, amended: the number of 64-bit words one successful transmit writes *)
(* to the aperture, times 8, equals the recorded descriptor length         *)
(* roundup(len + 8, 64), which equals the increase of ct_added; added      *)
(* grows by one and the ring slot added & mask records the dma_id.  In     *)
(* scenario S1 (fresh VI, len = 100) these are 16 word writes: 14 for the  *)
(* header and the payload, then 2 of padding; ct_added becomes 128, added  *)
(* 1, ring[0].len 128 and ids[0] 0xAA.                                     *)
(***************************************************************************)
C21_words_match_descriptor ==
  [][StreamSent =>
       /\ Len(ctpio') * 8 = CI_ROUND_UP(arg.len + EFCT_TX_HEADER_BYTES, EFCT_TX_ALIGNMENT)
       /\ Len(ctpio') * 8 = descriptors'[BitAnd(txq.added, txq_mask)]
       /\ Len(ctpio') * 8 = txq'.ct_added - txq.ct_added
       /\ txq'.added = txq.added + 1
       /\ ids'[BitAnd(txq.added, txq_mask)] \in DmaIds
       /\ (res'.op = "transmit" /\ txq.added = 0 /\ arg.len = 100) =>
            /\ Len(ctpio') = 16
            /\ StreamWords(arg.len) = 14
            /\ \A i \in 15..16 : ctpio'[i].val = Zeros(8)
            /\ ctpio'[14].val # Zeros(8)
            /\ txq'.ct_added = 128
            /\ txq'.added = 1
            /\ descriptors'[0] = 128
            /\ ids'[0] = "aa"]_vars

\* scenario S1 has run: 100 bytes were sent from a fresh VI in 16 word writes
C21_s1_sent ==
  /\ res = [op |-> "transmit", n |-> 1]
  /\ arg.len = 100
  /\ rc = 0
  /\ Len(ctpio) = 16
  /\ txq.ct_added = 128

(***************************************************************************)
(* Properties of the aperture layout, checked under SpecTxApi.             *)
(***************************************************************************)
\* a call has queued a packet: it wrote the aperture and took a ring slot
PacketQueued == txq'.added = txq.added + 1

\* the aperture word offset at which byte count ct of the FIFO lies
ApertureWord(ct) == BitAnd(Shr(ct, 3), efct_aperture_mask)

(***************************************************************************)
(* C22: ct_added is a multiple of 64 in every reachable state, so the      *)
(* assertion of efct_tx_init never fires, and every packet starts at       *)
(* aperture word offset (ct_added / 8) & aperture_mask, where the previous *)
(* packet's padding ended: its words lie at consecutive offsets modulo the *)
(* aperture size, start 64-byte aligned, are a whole number of 64-byte     *)
(* lines, do not overlap each other, and end where the next packet starts. *)
(***************************************************************************)
C22_aperture_contiguous ==
  [][/\ txq.ct_added % EFCT_TX_ALIGNMENT = 0
     /\ txq'.ct_added % EFCT_TX_ALIGNMENT = 0
     /\ PacketQueued =>
          /\ ctpio' # <<>>
          /\ ctpio'[1].off = ApertureWord(txq.ct_added)
          /\ ctpio'[1].off % Shr(EFCT_TX_ALIGNMENT, 3) = 0
          /\ Len(ctpio') % Shr(EFCT_TX_ALIGNMENT, 3) = 0
          /\ \A i \in 1..(Len(ctpio') - 1) :
               ctpio'[i + 1].off = BitAnd(ctpio'[i].off + 1, efct_aperture_mask)
          /\ \A i, j \in 1..Len(ctpio') : ctpio'[i].off = ctpio'[j].off => i = j
          /\ BitAnd(ctpio'[Len(ctpio')].off + 1, efct_aperture_mask)
               = ApertureWord(txq'.ct_added)]_vars

\* a packet that follows others was streamed across the end of the aperture
C22_packet_wraps_aperture ==
  /\ txq.added > 1
  /\ ctpio # <<>>
  /\ ctpio[1].off > ctpio[Len(ctpio)].off
  /\ ctpio[1].off = ApertureWord(txq.ct_added - descriptors[BitAnd(txq.added - 1, txq_mask)])

(***************************************************************************)
(* One RXQ and the TX event ring together: the NIC writes metadata and     *)
(* runs of control and unknown-type entries, and the caller polls.         *)
(***************************************************************************)
\* control and unknown-type entries the NIC writes to the event ring
PollMaxOther == 2

PollOtherEvents ==
  {[NoEvent EXCEPT !.type = "CONTROL", !.subtype = subtype,
                   !.time_high = 7 * 65536 + 1, !.in_sync = 1, !.is_set = 1] :
      subtype \in {"FLUSH", "TIME_SYNC", "UNSOL_OVERFLOW"}}
  \cup {[NoEvent EXCEPT !.type = "UNKNOWN"]}

\* the NIC writes an entry that completes no packet
PollNicOther(event) ==
  /\ NicRoom
  /\ nic.other < PollMaxOther
  /\ NicWrite(event)
  /\ nic' = [nic EXCEPT !.evq_wr = @ + 1, !.other = @ + 1]
  /\ NicFrame

NextPoll ==
  \/ RxAttach(0, MaxSuperbufPkts)
  \/ \E sb \in SbIxs :
       /\ Published(0) < ViMaxSbufs
       /\ RmPublish(0, sb, 0)
  \/ \E h \in ViHeaders : NicRxWrite(0, h)
  \/ \E dma_id \in DmaIds :
       /\ txq.added < ViMaxAdded
       /\ Transmit(EFCT_TX_ALIGNMENT - EFCT_TX_HEADER_BYTES, dma_id)
  \/ \E d \in nic.done..(txq.added - 1) : NicTxEvent(d, 0)
  \/ \E event \in PollOtherEvents : PollNicOther(event)
  \/ \E evs_len \in 1..MaxEvs : EventqPoll(evs_len, TRUE)

SpecPoll == InitTx /\ [][NextPoll]_vars

RECURSIVE ValidRun(_)
\* the entries of the event ring that are valid from evq_ptr on
ValidRun(evq_ptr) ==
  IF efct_tx_get_event(evq_ptr) = NoEvent THEN 0 ELSE 1 + ValidRun(evq_ptr + 8)

\* the ring entries the poll that led to p consumed
TxConsumed(p) == (p.evq.evq_ptr - evq.evq_ptr) \div 8

\* the pointers of queue q when the for loop of efct_poll_rx starts
RolledPtr(q) ==
  IF efct_rxq_need_rollover(rxq_ptr[q]) /\ ~(rx_rollover(PollVi, q).rc < 0)
  THEN rx_rollover(PollVi, q).r.ptr[q]
  ELSE rxq_ptr[q]

\* the iterations the for loop of efct_poll_rx may make on queue q: none when the
\* rollover fails, else the clamped evs_len
RxRoom(q, evs_len) ==
  IF efct_rxq_need_rollover(rxq_ptr[q]) /\ rx_rollover(PollVi, q).rc < 0
  THEN 0
  ELSE CI_MIN(evs_len, RolledPtr(q).end - rxq_ptr_to_pkt_id(RolledPtr(q).next))

\* the metadata headers of queue q the poll that led to p consumed
RxConsumed(p, q) ==
  rxq_ptr_to_pkt_id(p.ptr[q].next) - rxq_ptr_to_pkt_id(RolledPtr(q).next)

PollTxWithinEvsLen(p, evs_len) == TxConsumed(p) <= evs_len

\* C23 as stated for the TX ring: the poll_tx loop of one eventq_poll call consumes
\* at most evs_len ring entries, whatever the ring holds.
C23_poll_tx_consumes_evs_len ==
  \A evs_len \in 1..MaxEvs :
     PollTxWithinEvsLen(efct_ef_eventq_poll(PollVi, evs_len, TRUE), evs_len)

PollBounded(p, evs_len) ==
  /\ Len(p.evs) <= evs_len
  /\ \A q \in RxqIxs :
       /\ RxConsumed(p, q) >= 0
       /\ RxConsumed(p, q) <= evs_len
       /\ efct_rxq_is_active(q) =>
            RxConsumed(p, q) <= RxRoom(q, evs_len)
  /\ TxConsumed(p) >= 0
  /\ TxConsumed(p) <= ValidRun(evq.evq_ptr)
  /\ ValidRun(evq.evq_ptr) < EvqSize
  /\ TxConsumed(p) > 0 => RxConsumed(p, 0) < evs_len

(***************************************************************************)
(* C23, amended: every eventq_poll call terminates and returns at most     *)
(* evs_len events.  In one call poll_rx consumes at most                   *)
(* min(evs_len, end - pkt_id(next)) metadata headers per queue, the        *)
(* pointers taken after the rollover check; the poll_tx loop runs only     *)
(* while output capacity remains, and consumes no more entries than are    *)
(* valid in the event ring, which are fewer than the ring has: FLUSH,      *)
(* TIME_SYNC, UNSOL_OVERFLOW and unknown-type entries emit nothing and are *)
(* not counted against evs_len.                                            *)
(***************************************************************************)
C23_poll_bounded ==
  \A evs_len \in 1..MaxEvs :
     PollBounded(efct_ef_eventq_poll(PollVi, evs_len, TRUE), evs_len)

\* a poll with room for one event consumes a run of two silent entries and the
\* completion behind them
C23_run_of_silent_entries ==
  /\ TxConsumed(efct_ef_eventq_poll(PollVi, 1, TRUE)) = 3
  /\ Len(efct_ef_eventq_poll(PollVi, 1, TRUE).evs) = 1
  /\ efct_tx_get_event(evq.evq_ptr).type # "TX"
  /\ efct_tx_get_event(evq.evq_ptr + 8).type # "TX"
  /\ efct_tx_get_event(evq.evq_ptr + 16).type = "TX"

RECURSIVE ApertureBytes(_)
\* the bytes of a run of aperture words, in address order
ApertureBytes(words) ==
  IF words = <<>> THEN <<>> ELSE Head(words).val \o ApertureBytes(Tail(words))

\* the state of the stream after the header and the first k fragments of iov
StreamAfter(v, iov, k) ==
  efct_tx_blocks(efct_tx_word(efct_tx_init(v),
                   efct_tx_pkt_header(v.fixed, IovLen(iov), EFCT_TX_CT_DISABLE)),
                 SubSeq(iov, 1, k))

\* the outcome v of a call left the VI as it is in the next state
StreamSame(v) ==
  /\ ctpio' = v.ctpio
  /\ txq' = v.txq
  /\ descriptors' = v.descriptors
  /\ ids' = v.ids
  /\ rc' = v.rc

(***************************************************************************)
(* C24: streaming is independent of fragmentation.  For every payload and  *)
(* every split of it into iov fragments, empty ones and ones of 1..7 bytes *)
(* included, transmitv writes the same aperture words at the same offsets  *)
(* and records the same descriptor length and ct_added increment as        *)
(* transmit of the concatenated payload: one header word, then the payload *)
(* bytes in input order, then zero bytes up to the next 64-byte boundary;  *)
(* the tail buffer never holds more than 7 bytes between blocks.           *)
(***************************************************************************)
C24_fragmentation_independent ==
  [][(res'.n # res.n /\ res'.op = "transmitv") =>
       /\ IovBytes(StreamIov(arg)) = Payload(arg.len)
       /\ StreamSame(efct_ef_vi_transmit(TxCall, Payload(arg.len), arg.len,
                                         ids'[BitAnd(txq.added, txq_mask)]))
       /\ \A k \in 0..Len(StreamIov(arg)) :
            StreamAfter(TxCall, StreamIov(arg), k).tail_len <= 7
       /\ rc' = 0 =>
            /\ ctpio'[1] = [off |-> ApertureWord(txq.ct_added),
                            val |-> efct_tx_pkt_header(efct_fixed_header, arg.len,
                                                       EFCT_TX_CT_DISABLE)]
            /\ \A i \in 1..Len(ctpio') :
                 ctpio'[i].off = BitAnd(ctpio'[1].off + i - 1, efct_aperture_mask)
            /\ ApertureBytes(Tail(ctpio')) =
                 Payload(arg.len) \o
                 Zeros(CI_ROUND_UP(arg.len + EFCT_TX_HEADER_BYTES, EFCT_TX_ALIGNMENT)
                         - EFCT_TX_HEADER_BYTES - arg.len)
            /\ descriptors'[BitAnd(txq.added, txq_mask)] = Len(ctpio') * 8
            /\ txq'.ct_added - txq.ct_added = Len(ctpio') * 8]_vars

\* scenario S2 has run: fragments of 1, 6 and 0 bytes went out as one header word
\* and one word of 7 payload bytes and a zero byte, padded to 64 bytes
C24_s2_sent ==
  /\ res = [op |-> "transmitv", n |-> 1]
  /\ arg = [len |-> 7, c1 |-> 1, c2 |-> 7]
  /\ rc = 0
  /\ Len(ctpio) = 8
  /\ ctpio[2].val = Payload(7) \o <<0>>
  /\ descriptors[0] = EFCT_TX_ALIGNMENT

(***************************************************************************)
(* Properties of the metadata protocol, checked under SpecRx.              *)
(***************************************************************************)
\* the VI when the for loop of efct_poll_rx starts on queue q
RolledVi(q) ==
  IF efct_rxq_need_rollover(rxq_ptr[q]) /\ ~(rx_rollover(PollVi, q).rc < 0)
  THEN rx_rollover(PollVi, q).r
  ELSE PollVi

\* the NIC has written the metadata slot pkt_id in this traversal of its superbuf
SlotWritten(pkt_id) ==
  pkt_id_to_index_in_superbuf(pkt_id) < sbufs[efct_rx_desc(pkt_id)].wr

\* the header at slot pkt_id carries the sentinel that next expects
SentinelMatches(pkt_id, next) ==
  efct_rx_header(PollVi, pkt_id).sentinel = rxq_ptr_to_sentinel(next)

\* the events of an event array that belong to queue q
RxEventsOf(es, q) ==
  {i \in DOMAIN es : es[i].type \in RxEventTypes /\ pkt_id_to_rxq_ix(es[i].pkt_id) = q}

\* next, prev and the refcounts of p are those of the loop's start after k headers
StoppedAfter(p, q, k) ==
  /\ rxq_ptr_to_pkt_id(p.ptr[q].next) = rxq_ptr_to_pkt_id(RolledPtr(q).next) + k
  /\ rxq_ptr_to_sentinel(p.ptr[q].next) = rxq_ptr_to_sentinel(RolledPtr(q).next)
  /\ p.ptr[q].next.sbseq = RolledPtr(q).next.sbseq
  /\ p.ptr[q].end = RolledPtr(q).end
  /\ p.ptr[q].prev = (IF k = 0 THEN RolledPtr(q).prev
                      ELSE rxq_ptr_to_pkt_id(RolledPtr(q).next) + k - 1)
  /\ \A g \in DOMAIN rx_desc : p.desc[g].refcnt = RolledVi(q).desc[g].refcnt
  /\ p.sbufs = RolledVi(q).sbufs

SentinelObeyed(p, q, evs_len) ==
  /\ Cardinality(RxEventsOf(p.evs, q)) = RxConsumed(p, q)
  /\ \A i \in 0..(RxConsumed(p, q) - 1) :
       /\ SentinelMatches(rxq_ptr_to_pkt_id(RolledPtr(q).next) + i, RolledPtr(q).next)
       /\ SlotWritten(rxq_ptr_to_pkt_id(RolledPtr(q).next) + i)
  /\ (/\ RxConsumed(p, q) < RxRoom(q, evs_len)
      /\ ~SentinelMatches(rxq_ptr_to_pkt_id(RolledPtr(q).next) + RxConsumed(p, q),
                          RolledPtr(q).next))
       => StoppedAfter(p, q, RxConsumed(p, q))

(***************************************************************************)
(* C25: the sentinel protocol.  poll_rx emits an event for a slot only if  *)
(* the sentinel bit of the header at slot pkt_id(next) equals the expected *)
(* sentinel in bit 31 of next; at the first header whose sentinel does not *)
(* match it stops, emits nothing more in that call and leaves next, prev   *)
(* and the superbuf refcounts as they were at that point, so a slot the    *)
(* NIC has not yet written in this traversal is never delivered.           *)
(***************************************************************************)
C25_sentinel_protocol ==
  \A evs_len \in 1..MaxEvs, refresh_ok \in BOOLEAN, q \in active_qs :
     SentinelObeyed(efct_ef_eventq_poll(PollVi, evs_len, refresh_ok), q, evs_len)

\* a poll with room for two events delivers one and stops at an unwritten slot
C25_stopped_at_unwritten_slot ==
  \E q \in active_qs :
     /\ RxRoom(q, MaxEvs) = 2
     /\ RxConsumed(efct_ef_eventq_poll(PollVi, MaxEvs, TRUE), q) = 1
     /\ ~SlotWritten(rxq_ptr_to_pkt_id(RolledPtr(q).next) + 1)
     /\ ~SentinelMatches(rxq_ptr_to_pkt_id(RolledPtr(q).next) + 1, RolledPtr(q).next)

\* the base packet id of the superbuf ops->next will hand out for queue q
NextBase(q) == rollover_pkt_id(q, Head(swq[q]).sb)

\* the j-th event of es is for the slot before slot base + j, and carries the length
\* given in the header at slot base + j
EventPrecedesHeader(es, j, base) ==
  /\ es[j].type \in RxEventTypes
  /\ es[j].pkt_id = base + j - 1
  /\ es[j].len = efct_rx_header(PollVi, base + j).length
  /\ SlotWritten(base + j)

\* the poll that led to p started queue q in the superbuf at base
FirstRolloverSkips(p, q, base) ==
  /\ RolledPtr(q).prev = base
  /\ rxq_ptr_to_pkt_id(RolledPtr(q).next) = base + 1
  /\ rxq_ptr_to_sentinel(RolledPtr(q).next) = Head(swq[q]).sentinel
  /\ RolledPtr(q).next.sbseq = Head(swq[q]).sbseq
  /\ RolledPtr(q).end = base + live[q].superbuf_pkts
  /\ p.swq[q] = Tail(swq[q])
  /\ p.ptr[q].end \in {0, RolledPtr(q).end}
  /\ RxEventsOf(p.evs, q) = 1..RxConsumed(p, q)
  /\ \A j \in RxEventsOf(p.evs, q) : EventPrecedesHeader(p.evs, j, base)
  /\ ~SlotWritten(base + 1) => RxEventsOf(p.evs, q) = {}

(***************************************************************************)
(* C26: the first-rollover skip.  For a queue with end == 0 the first      *)
(* poll_rx performs a rollover that sets prev to the new superbuf's base   *)
(* packet id, next to base + 1 with the sentinel returned by ops.next in   *)
(* bit 31 and sbseq in the high 32 bits, and end to base + superbuf_pkts;  *)
(* the metadata header in slot 0 is never read as a packet description and *)
(* produces no event; valid headers produce events whose pkt_id is the     *)
(* slot preceding the header, starting with slot 0.  While ops.next has no *)
(* superbuf the poll changes nothing and the rollover is tried again.      *)
(***************************************************************************)
C26_first_rollover_skip ==
  \A evs_len \in 1..MaxEvs, q \in active_qs :
     rxq_ptr[q].end = 0 =>
       IF swq[q] = <<>>
       THEN /\ efct_ef_eventq_poll(PollVi, evs_len, TRUE).ptr[q] = rxq_ptr[q]
            /\ efct_ef_eventq_poll(PollVi, evs_len, TRUE).evs = <<>>
       ELSE FirstRolloverSkips(efct_ef_eventq_poll(PollVi, evs_len, TRUE), q, NextBase(q))

\* a queue that was never polled has its first superbuf with the headers of slots 0
\* and 1 written: the poll delivers slot 0
C26_first_packet_after_skip ==
  \E q \in active_qs :
     /\ rxq_ptr[q] = [next |-> [sbseq |-> Seq32(0), hi |-> 0, lo |-> 0], prev |-> 0, end |-> 0]
     /\ swq[q] # <<>>
     /\ SlotWritten(NextBase(q) + 1)
     /\ Len(efct_ef_eventq_poll(PollVi, MaxEvs, TRUE).evs) = 1
     /\ efct_ef_eventq_poll(PollVi, MaxEvs, TRUE).evs[1].pkt_id = NextBase(q)

\* queue q is at the end of its superbuf and ops->next will hand out a superbuf whose
\* sequence number is not the one after the stored one
NodescDrop(q) ==
  /\ rxq_ptr[q].end # 0
  /\ efct_rxq_need_rollover(rxq_ptr[q])
  /\ swq[q] # <<>>
  /\ rx_rollover_sbseq_gap(Head(swq[q]).sbseq, rxq_ptr[q].next.sbseq)

\* the rollover gave up one reference of the superbuf g of the old prev, freed g iff
\* that was the last one, and preloaded the new superbuf
ReleasedOnce(q, g, new) ==
  /\ g # new
  /\ rx_desc[g].refcnt > 0
  /\ RolledVi(q).desc[g].refcnt = rx_desc[g].refcnt - 1
  /\ RolledVi(q).sbufs[g].owner = (IF rx_desc[g].refcnt = 1 THEN "rm" ELSE "vi")
  /\ RolledVi(q).desc[new].refcnt = live[q].superbuf_pkts
  /\ \A o \in DOMAIN rx_desc \ {g, new} :
       /\ RolledVi(q).desc[o] = rx_desc[o]
       /\ RolledVi(q).sbufs[o] = sbufs[o]

(***************************************************************************)
(* C27: nodesc-drop recovery.  When a rollover on a queue with end != 0    *)
(* returns an sbseq different from the stored sequence + 1, exactly one    *)
(* rxpkt_release(prev) is performed for the last packet of the previous    *)
(* superbuf, that packet is not delivered as an event, prev is set to the  *)
(* new superbuf's base and next skips the new superbuf's first header; no  *)
(* other packet is lost (the events that follow start at slot 0 of the new *)
(* superbuf, the packets the caller holds keep their references) and no    *)
(* error is returned.                                                      *)
(***************************************************************************)
C27_nodesc_drop_recovery ==
  \A evs_len \in 1..MaxEvs, q \in active_qs :
     NodescDrop(q) =>
       /\ rx_rollover(PollVi, q).rc = 0
       /\ rxq_ptr[q].prev = rxq_ptr[q].end - 1
       /\ ReleasedOnce(q, efct_rx_desc(rxq_ptr[q].prev), efct_rx_desc(NextBase(q)))
       /\ FirstRolloverSkips(efct_ef_eventq_poll(PollVi, evs_len, TRUE), q, NextBase(q))
       /\ rxq_ptr[q].prev \notin Delivered(efct_ef_eventq_poll(PollVi, evs_len, TRUE).evs)
       /\ efct_ef_eventq_poll(PollVi, evs_len, TRUE).bug = bug

\* a sequence gap is about to be met while the caller holds a packet of the old
\* superbuf, and the new superbuf has its first packet ready
C27_gap_with_packet_ready ==
  \E q \in active_qs :
     /\ NodescDrop(q)
     /\ HeldIn(efct_rx_desc(rxq_ptr[q].prev)) # {}
     /\ Delivered(efct_ef_eventq_poll(PollVi, MaxEvs, TRUE).evs) = {NextBase(q)}

\* the packet id of the slot whose header the poll that led to p stopped at
StopSlot(p, q) == rxq_ptr_to_pkt_id(RolledPtr(q).next) + RxConsumed(p, q)

\* prev as it was when the poll that led to p stopped
StopPrev(p, q) ==
  IF RxConsumed(p, q) = 0 THEN RolledPtr(q).prev ELSE StopSlot(p, q) - 1

\* the poll that led to p read a valid header with ROLLOVER set on queue q
MetHwRollover(p, q, evs_len) ==
  /\ RxConsumed(p, q) < RxRoom(q, evs_len)
  /\ SentinelMatches(StopSlot(p, q), RolledPtr(q).next)
  /\ efct_rx_header(PollVi, StopSlot(p, q)).rollover # 0

\* the references given up on superbuf g, and the superbuf nsb of next
HwRolloverRefs(p, q, g, nsb) ==
  /\ RolledVi(q).sbufs[g].owner = "vi"
  /\ IF nsb = g
     THEN /\ RolledPtr(q).end - StopPrev(p, q) > 0
          /\ RolledPtr(q).end - StopPrev(p, q) <= RolledVi(q).desc[g].refcnt
          /\ p.desc[g].refcnt = RolledVi(q).desc[g].refcnt
                                  - (RolledPtr(q).end - StopPrev(p, q))
     ELSE /\ RolledVi(q).desc[g].refcnt >= 1
          /\ p.desc[g].refcnt = RolledVi(q).desc[g].refcnt - 1
          /\ RolledVi(q).sbufs[nsb].owner = "vi"
          /\ p.sbufs[nsb].owner = "rm"
  /\ p.sbufs[g].owner = (IF p.desc[g].refcnt = 0 THEN "rm" ELSE "vi")
  /\ \A o \in DOMAIN rx_desc \ {g, nsb} :
       /\ p.desc[o].refcnt = RolledVi(q).desc[o].refcnt
       /\ p.sbufs[o] = RolledVi(q).sbufs[o]

HwRolloverHandled(p, q) ==
  /\ HwRolloverRefs(p, q, efct_rx_desc(StopPrev(p, q)), efct_rx_desc(StopSlot(p, q)))
  /\ p.ptr[q].end = 0
  /\ p.ptr[q].prev = StopPrev(p, q)
  /\ rxq_ptr_to_sentinel(p.ptr[q].next) = rxq_ptr_to_sentinel(RolledPtr(q).next)
  /\ p.ptr[q].next.sbseq = RolledPtr(q).next.sbseq
  /\ Cardinality(RxEventsOf(p.evs, q)) = RxConsumed(p, q)
  /\ p.bug = bug

(***************************************************************************)
(* C28: hardware rollover handling.  When poll_rx reads a valid header     *)
(* with ROLLOVER set, then (a) if next and prev are in the same superbuf,  *)
(* the superbuf's refcnt is reduced by end - prev, which is never more     *)
(* than the current refcnt; (b) otherwise exactly one reference of prev's  *)
(* superbuf is surrendered and the superbuf containing next is freed via   *)
(* ops.free; in both cases prev's superbuf is freed iff its refcnt reached *)
(* 0, end is set to 0, next and prev are not advanced, and no further      *)
(* header is read in that call.                                            *)
(***************************************************************************)
C28_hw_rollover_handling ==
  \A evs_len \in 1..MaxEvs, q \in active_qs :
     MetHwRollover(efct_ef_eventq_poll(PollVi, evs_len, TRUE), q, evs_len) =>
       HwRolloverHandled(efct_ef_eventq_poll(PollVi, evs_len, TRUE), q)

\* the ROLLOVER header is the first of a superbuf, and describes the last packet of
\* the superbuf before it, of which the caller still holds a packet
C28_rollover_straddles_superbufs ==
  \E q \in active_qs :
     /\ MetHwRollover(efct_ef_eventq_poll(PollVi, MaxEvs, TRUE), q, MaxEvs)
     /\ efct_rx_desc(StopPrev(efct_ef_eventq_poll(PollVi, MaxEvs, TRUE), q))
          # efct_rx_desc(StopSlot(efct_ef_eventq_poll(PollVi, MaxEvs, TRUE), q))
     /\ HeldIn(efct_rx_desc(StopPrev(efct_ef_eventq_poll(PollVi, MaxEvs, TRUE), q))) # {}

(***************************************************************************)
(* The configuration refresh of efct_poll_rx in its steps: the poll reads  *)
(* the live generation, calls ops->refresh and then caches the generation, *)
(* while the resource manager changes the live generation at any point.    *)
(* res.seen is the generation of the configuration the last successful     *)
(* refresh picked up.                                                      *)
(***************************************************************************)
\* changes of the live configuration generation
RefreshMaxGen == 3

PollIdleState == [pc |-> "idle", qid |-> 0, evs_len |-> 0, new_generation |-> 0, ok |-> TRUE]

NoRefresh == [seen |-> 0, failed |-> FALSE, last |-> "none", n |-> 0]

\* a faulty write-back that caches the live generation read after the refresh
efct_poll_rx_cache_live(r, qid, new_generation) ==
  [r EXCEPT !.rxq[qid].config_generation = live[qid].config_generation]

\* rxq->config_generation = new_generation
efct_poll_rx_cache(r, qid, new_generation) ==
  [r EXCEPT !.rxq[qid].config_generation = new_generation]

\* the resource manager changes the configuration of queue q
RefreshConfigChange(q) ==
  /\ q \in active_qs
  /\ live[q].config_generation < RefreshMaxGen
  /\ live' = [live EXCEPT ![q].config_generation = @ + 1]
  /\ UNCHANGED <<purevars, txvars, rxq_ptr, rx_desc, rxq, rx_discard_mask, active_qs,
                 sbufs, swq, hwq, held, evs, rc, bug>>

\* the rollover check of efct_poll_rx on queue qid failed
RolloverFailed(qid) ==
  efct_rxq_need_rollover(rxq_ptr[qid]) /\ rx_rollover(PollVi, qid).rc < 0

\* efct_poll_rx(vi, qid, evs, evs_len) up to the read of the live generation
PollBegin(qid, evs_len) ==
  /\ arg.pc = "idle"
  /\ IF RolloverFailed(qid)
     THEN /\ EventqPollState(PollVi, <<>>)
          /\ arg' = arg
          /\ res' = [res EXCEPT !.last = "rollover_failed", !.n = 1 - @]
     ELSE IF efct_rxq_need_config(RolledVi(qid), qid)
     THEN /\ EventqPollState(RolledVi(qid), <<>>)
          /\ arg' = [pc |-> "refresh", qid |-> qid, evs_len |-> evs_len,
                     new_generation |-> live[qid].config_generation, ok |-> TRUE]
          /\ res' = [res EXCEPT !.last = "read", !.n = 1 - @]
     ELSE /\ EventqPollState(efct_poll_rx_events(RolledVi(qid), qid, evs_len), <<>>)
          /\ arg' = arg
          /\ res' = [res EXCEPT !.last = "polled", !.n = 1 - @]

\* ops->refresh(vi, qid) picks up the live configuration, or fails
PollRefresh(ok) ==
  /\ arg.pc = "refresh"
  /\ arg' = [arg EXCEPT !.pc = "write", !.ok = ok]
  /\ res' = [res EXCEPT !.seen = IF ok THEN live[arg.qid].config_generation ELSE @,
                        !.failed = @ \/ ~ok,
                        !.last = "refresh"]
  /\ UNCHANGED <<txvars, rxvars, evs, rc, bug>>

\* the write-back of the generation and the rest of efct_poll_rx
PollWrite ==
  /\ arg.pc = "write"
  /\ IF arg.ok
     THEN EventqPollState(
            efct_poll_rx_events(efct_poll_rx_cache(PollVi, arg.qid, arg.new_generation),
                                arg.qid, arg.evs_len), <<>>)
     ELSE EventqPollState(efct_poll_rx_cache(PollVi, arg.qid, arg.new_generation), <<>>)
  /\ arg' = PollIdleState
  /\ res' = [res EXCEPT !.last = IF arg.ok THEN "write_ok" ELSE "write_failed"]

InitRefresh ==
  /\ arg = PollIdleState /\ res = NoRefresh /\ evs = <<>> /\ rc = 0 /\ bug = {}
  /\ TxInit(0)
  /\ RxInit

NextRefresh ==
  \/ arg.pc = "idle" /\ RxAttach(0, MaxSuperbufPkts)
  \/ \E sb \in SbIxs :
       /\ Published(0) < ViMaxSbufs
       /\ RmPublish(0, sb, 0)
  \/ NicRxWrite(0, PlainHeader)
  \/ \E q \in active_qs : RefreshConfigChange(q)
  \/ \E q \in active_qs, evs_len \in 1..MaxEvs : PollBegin(q, evs_len)
  \/ \E ok \in BOOLEAN : PollRefresh(ok)
  \/ PollWrite

SpecRefresh == InitRefresh /\ [][NextRefresh]_vars

\* a poll_rx call on queue q starts
PollBegins(q) == res'.n # res.n /\ q \in active_qs

\* a successful refresh is written back
RefreshWritten == arg.pc = "write" /\ arg.ok /\ arg'.pc = "idle"

\* C29 as stated for the poll that follows: whenever the queue has a configuration
\* refresh pending, the next poll_rx calls ops.refresh
C29_next_poll_refreshes ==
  [][\A q \in RxqIxs :
       (PollBegins(q) /\ efct_rxq_need_config(PollVi, q)) => arg'.pc = "refresh"]_vars

(***************************************************************************)
(* C29, amended: no configuration change is lost across a concurrent       *)
(* refresh.  The generation cached after a successful ops.refresh is the   *)
(* live value read before the refresh started, so it is never newer than   *)
(* the configuration the refresh picked up; if the resource manager        *)
(* changes the live generation at any point after that read, the queue     *)
(* still has the refresh pending, and the next poll_rx that gets past its  *)
(* rollover check calls ops.refresh again; if the live generation has not  *)
(* changed since the read, need_config is false after the write-back.      *)
(***************************************************************************)
C29_no_config_change_lost ==
  [][/\ RefreshWritten =>
          /\ rxq'[arg.qid].config_generation = arg.new_generation
          /\ efct_rxq_need_config([rxq |-> rxq'], arg.qid)
               = (live[arg.qid].config_generation # arg.new_generation)
     /\ ~res'.failed =>
          \A q \in active_qs :
             /\ rxq'[q].config_generation <= res'.seen
             /\ res'.seen <= live'[q].config_generation
             /\ rxq'[q].config_generation = live'[q].config_generation =>
                  res'.seen = live'[q].config_generation
     /\ \A q \in RxqIxs :
          (PollBegins(q) /\ efct_rxq_need_config(PollVi, q) /\ ~RolloverFailed(q))
            => arg'.pc = "refresh"]_vars

\* the configuration changed between the read and the refresh, and again between the
\* refresh and the write-back: the refresh is still pending
C29_changed_during_refresh ==
  /\ res.last = "write_ok"
  /\ ~res.failed
  /\ rxq[0].config_generation < res.seen
  /\ res.seen < live[0].config_generation
  /\ efct_rxq_need_config(PollVi, 0)

(***************************************************************************)
(* The receive side with a record of what was delivered: res.log[g] lists  *)
(* the packet ids delivered from superbuf g since the VI last took it from *)
(* ops->next.                                                              *)
(***************************************************************************)
NoLog == [log |-> [g \in GlobalSbIxs |-> <<>>]]

\* the superbufs the poll that led to p took from ops->next
TakenBy(p) ==
  {efct_rx_desc_for_sb(q, Head(swq[q]).sb) : q \in {o \in active_qs : p.swq[o] # swq[o]}}

RECURSIVE LogEvents(_, _)
\* the log with the packet ids of the events es added, in order
LogEvents(log, es) ==
  IF es = <<>> THEN log
  ELSE IF Head(es).type \in RxEventTypes
  THEN LogEvents([log EXCEPT ![efct_rx_desc(Head(es).pkt_id)] = Append(@, Head(es).pkt_id)],
                 Tail(es))
  ELSE LogEvents(log, Tail(es))

\* ef_eventq_poll(vi, evs, evs_len), with the log kept
OrderPoll(evs_len, refresh_ok) ==
  /\ EventqPollState(efct_ef_eventq_poll(PollVi, evs_len, refresh_ok), <<>>)
  /\ res' = [log |-> LogEvents(
               [g \in GlobalSbIxs |->
                  IF g \in TakenBy(efct_ef_eventq_poll(PollVi, evs_len, refresh_ok))
                  THEN <<>> ELSE res.log[g]],
               efct_ef_eventq_poll(PollVi, evs_len, refresh_ok).evs)]
  /\ arg' = arg

InitOrder ==
  /\ arg = 0 /\ res = NoLog /\ evs = <<>> /\ rc = 0 /\ bug = {}
  /\ TxInit(0)
  /\ RxInit

NextOrder ==
  \/ \E qid \in Qids, pkts \in SuperbufPkts : RxAttach(qid, pkts)
  \/ \E q \in RxqIxs, sb \in SbIxs, gap \in {0, 1} : RmPublish(q, sb, gap)
  \/ \E q \in RxqIxs, h \in RxHeaders : NicRxWrite(q, h)
  \/ \E q \in RxqIxs : RmConfigChange(q)
  \/ \E pkt_id \in held : RxpktRelease(pkt_id)
  \/ \E evs_len \in 1..MaxEvs, refresh_ok \in RefreshOutcomes : OrderPoll(evs_len, refresh_ok)

SpecOrder == InitOrder /\ [][NextOrder]_vars

\* queue q has rolled over at least once: its pointers refer to superbufs
HasRolled(q) ==
  rxq_ptr[q] # [next |-> [sbseq |-> Seq32(0), hi |-> 0, lo |-> 0], prev |-> 0, end |-> 0]

\* the j-th event of the poll that led to p on queue q is for the slot before the
\* j-th header read, which the NIC had written with the expected sentinel
EventAfterHeader(p, q, j) ==
  /\ p.evs[j].pkt_id = (IF j = 1 THEN RolledPtr(q).prev
                        ELSE rxq_ptr_to_pkt_id(RolledPtr(q).next) + j - 2)
  /\ SlotWritten(rxq_ptr_to_pkt_id(RolledPtr(q).next) + j - 1)
  /\ SentinelMatches(rxq_ptr_to_pkt_id(RolledPtr(q).next) + j - 1, RolledPtr(q).next)

\* prev is the slot before next, or the last slot of a superbuf when next is at the
\* first header of the following one
PrevBeforeNext(p) ==
  IF efct_rx_desc(p.prev) = efct_rx_desc(rxq_ptr_to_pkt_id(p.next))
  THEN p.prev = rxq_ptr_to_pkt_id(p.next) - 1
  ELSE /\ pkt_id_to_index_in_superbuf(rxq_ptr_to_pkt_id(p.next)) = 0
       /\ pkt_id_to_index_in_superbuf(p.prev) = rx_desc[efct_rx_desc(p.prev)].superbuf_pkts - 1

(***************************************************************************)
(* C30: per-queue RX delivery order.  Over any sequence of polls the       *)
(* pkt_ids of the RX_REF and RX_REF_DISCARD events within one superbuf are *)
(* consecutive slots in increasing order starting at slot 0, each slot is  *)
(* delivered at most once, an event for slot k is emitted only after the   *)
(* header at slot k + 1 (or slot 0 of the following superbuf for the last  *)
(* slot) was seen with a valid sentinel, and, once the queue has rolled    *)
(* over, prev == pkt_id(next) - 1 whenever both lie in the same superbuf.  *)
(***************************************************************************)
C30_delivery_order ==
  /\ \A g \in GlobalSbIxs :
       /\ Len(res.log[g]) <= rx_desc[g].superbuf_pkts
       /\ \A i \in DOMAIN res.log[g] :
            res.log[g][i] = g * (2 ^ PKT_ID_PKT_BITS) + i - 1
  /\ \A q \in active_qs :
       /\ HasRolled(q) => PrevBeforeNext(rxq_ptr[q])
       /\ \A evs_len \in 1..MaxEvs :
            \A j \in RxEventsOf(efct_ef_eventq_poll(PollVi, evs_len, TRUE).evs, q) :
               EventAfterHeader(efct_ef_eventq_poll(PollVi, evs_len, TRUE), q, j)

\* both packets of a superbuf were delivered, the last one on the first header of the
\* superbuf that follows it
C30_superbuf_delivered_in_order ==
  \E q \in active_qs :
     /\ Len(res.log[efct_rx_desc(rxq_ptr[q].prev)]) = 1
     /\ \E g \in GlobalSbIxs :
          /\ g # efct_rx_desc(rxq_ptr[q].prev)
          /\ res.log[g] = <<g * (2 ^ PKT_ID_PKT_BITS), g * (2 ^ PKT_ID_PKT_BITS) + 1>>

(***************************************************************************)
(* Properties of the FIFO byte accounting, checked under SpecTx.           *)
(***************************************************************************)
RECURSIVE DescBytes(_, _)
\* the sum of the recorded lengths of the descriptors i in [from, to)
DescBytes(from, to) ==
  IF from >= to THEN 0
  ELSE descriptors[BitAnd(from, txq_mask)] + DescBytes(from + 1, to)

\* C31 as stated: in every reachable state ct_added - ct_removed equals the sum of the
\* recorded lengths of the descriptors in [previous, added); once every posted packet
\* is acknowledged (previous == added), ct_removed == ct_added and the full
\* ct_fifo_bytes is available again.
C31_fifo_bytes_conserved ==
  /\ txq.ct_added - txq.ct_removed = DescBytes(txq.previous, txq.added)
  /\ txq.previous = txq.added =>
       /\ txq.ct_removed = txq.ct_added
       /\ ef_vi_transmit_space_bytes(TxVi) = ct_fifo_bytes


(***************************************************************************)
(* The receive side on queues that have already handed out nearly 2^32     *)
(* superbufs: the sequence numbers that ops->next returns wrap to 0 after  *)
(* two more.                                                               *)
(***************************************************************************)
SeqBases == {Seq32(0), Seq32Add(Seq32(0), -2)}

InitSeqWrap ==
  /\ arg = 0 /\ res = 0 /\ evs = <<>> /\ rc = 0 /\ bug = {}
  /\ TxInit(0)
  /\ \E base \in SeqBases : RxInitAt(base)

SpecSeqWrap == InitSeqWrap /\ [][NextRx]_vars

\* queue q is at the end of its superbuf and ops->next will hand out the superbuf whose
\* sequence number is the successor modulo 2^32 of the stored one
SuccessorRollover(q) ==
  /\ rxq_ptr[q].end # 0
  /\ efct_rxq_need_rollover(rxq_ptr[q])
  /\ swq[q] # <<>>
  /\ Head(swq[q]).sbseq = Seq32Add(rxq_ptr[q].next.sbseq, 1)

\* the rollover of queue q released nothing and starts at the first header of the new
\* superbuf
NormalRollover(q) ==
  /\ rx_rollover(PollVi, q).rc = 0
  /\ RolledPtr(q).prev = rxq_ptr[q].prev
  /\ rxq_ptr_to_pkt_id(RolledPtr(q).next) = NextBase(q)
  /\ RolledPtr(q).next.sbseq = Head(swq[q]).sbseq
  /\ \A g \in DOMAIN rx_desc \ {efct_rx_desc(NextBase(q))} :
       /\ RolledVi(q).desc[g] = rx_desc[g]
       /\ RolledVi(q).sbufs[g] = sbufs[g]

(***************************************************************************)
(* C32: the superbuf sequence comparison is correct across 32-bit          *)
(* wrap-around.  A rollover whose sbseq, a 32-bit value, is the successor  *)
(* modulo 2^32 of the sequence stored in the high half of next is treated  *)
(* as a normal rollover: no rxpkt_release of prev, and the first header of *)
(* the new superbuf is not skipped, including when the stored sequence is  *)
(* 2^32 - 1 and the new sbseq is 0.                                        *)
(***************************************************************************)
C32_successor_rollover_normal ==
  \A q \in active_qs : SuccessorRollover(q) => NormalRollover(q)


(***************************************************************************)
(* The loop of efct_tx_handle_event at the width of its counters: added    *)
(* and previous are uint32_t, kept as two 16-bit limbs, and the queue is   *)
(* taken at samples of previous that include the wrap of the event         *)
(* sequence and the wrap of the counter.                                   *)
(***************************************************************************)
RECURSIVE efct_tx_handle_event_loop_exclusive(_, _)
\* a faulty loop that stops at the descriptor the event names
efct_tx_handle_event_loop_exclusive(s, seq) ==
  IF BitAnd(s.txq.previous.lo, seq_mask) = BitAnd(seq, seq_mask) THEN s
  ELSE IF s.txq.previous = s.txq.added
       THEN [s EXCEPT !.bug = @ \cup {"tx_handle_event: previous == added"}]
       ELSE efct_tx_handle_event_loop_exclusive(
              [s EXCEPT !.txq.ct_removed =
                          @ + descriptors[BitAnd(s.txq.previous.lo, txq_mask)],
                        !.txq.previous = Seq32Add(@, 1)],
              seq)

RECURSIVE efct_tx_handle_event_loop(_, _)
efct_tx_handle_event_loop(s, seq) ==
  IF BitAnd(s.txq.previous.lo, seq_mask) = BitAnd(seq + 1, seq_mask) THEN s
  ELSE IF s.txq.previous = s.txq.added
       THEN [s EXCEPT !.bug = @ \cup {"tx_handle_event: previous == added"}]
       ELSE efct_tx_handle_event_loop(
              [s EXCEPT !.txq.ct_removed =
                          @ + descriptors[BitAnd(s.txq.previous.lo, txq_mask)],
                        !.txq.previous = Seq32Add(@, 1)],
              seq)

\* previous at the start, after one lap of the event sequence, at the carry between
\* the limbs, and one and two short of the wrap of the counter
PreviousSamples ==
  {Seq32(0), Seq32(seq_mask), Seq32Add(Seq32(0), -65537),
   Seq32Add(Seq32(0), -2), Seq32Add(Seq32(0), -1)}

\* what efct_tx_check leaves outstanding at most: the ring, and less than 2^W
MaxOutstanding == CI_MIN(TxRingSize, seq_mask)

SeqMatchQueues ==
  {[added |-> Seq32Add(p, n), removed |-> p, previous |-> p,
    ct_added |-> 0, ct_removed |-> 0] : p \in PreviousSamples, n \in 0..MaxOutstanding}

InitSeqMatch ==
  /\ \E q \in SeqMatchQueues : arg = q
  /\ res = [seq |-> 0, n |-> 0]
  /\ evs = <<>> /\ rc = 0 /\ bug = {}
  /\ \E d \in [TxRing -> {64, 128}] : TxInitOf(TxRingSize - 1, arg, d)
  /\ RxInit

\* a TX completion event with this SEQUENCE field is handled
SeqMatchHandle(seq) ==
  /\ res.n = 0
  /\ res' = [seq |-> seq, n |-> 1]
  /\ txq' = efct_tx_handle_event_loop([txq |-> txq, bug |-> bug], seq).txq
  /\ bug' = efct_tx_handle_event_loop([txq |-> txq, bug |-> bug], seq).bug
  /\ UNCHANGED <<arg, rxvars, descriptors, ids, evq, evq_mem, ctpio, unsol_reg, nic,
                 txq_mask, efct_fixed_header, last_ctpio_failed, tx_pending, last_desc_id,
                 evs, rc>>

NextSeqMatch == \E seq \in 0..seq_mask : SeqMatchHandle(seq)

SpecSeqMatch == InitSeqMatch /\ [][NextSeqMatch]_vars

\* the number of descriptors outstanding before the event, at most MaxOutstanding
Outstanding(k) == arg.added = Seq32Add(arg.previous, k)

RECURSIVE RetiredBytes(_)
\* the lengths of the first k descriptors outstanding before the event
RetiredBytes(k) ==
  IF k = 0 THEN 0
  ELSE descriptors[BitAnd(Seq32Add(arg.previous, k - 1).lo, txq_mask)] + RetiredBytes(k - 1)

(***************************************************************************)
(* C33: TX event sequence matching modulo 2^W, W being                     *)
(* EFCT_TX_EVENT_SEQUENCE_WIDTH.  If the event's SEQUENCE field equals the *)
(* low W bits of the index of an outstanding descriptor d in [previous,    *)
(* added) and fewer than 2^W descriptors are outstanding, handling the     *)
(* event leaves previous == d + 1, adds exactly the lengths of the         *)
(* descriptors previous..d to ct_removed, and the assertion previous !=    *)
(* added inside the loop never fires, including when previous and the      *)
(* sequence wrap around 2^W or 2^32; an event repeating the sequence of    *)
(* the last acknowledged descriptor retires nothing.                       *)
(***************************************************************************)
C33_sequence_matching ==
  res.n = 1 =>
    /\ \A n \in 1..MaxOutstanding, k \in 0..(MaxOutstanding - 1) :
         (/\ Outstanding(n)
          /\ k < n
          /\ res.seq = BitAnd(Seq32Add(arg.previous, k).lo, seq_mask)) =>
            /\ txq.previous = Seq32Add(arg.previous, k + 1)
            /\ txq.ct_removed = arg.ct_removed + RetiredBytes(k + 1)
            /\ txq.added = arg.added
            /\ bug = {}
    /\ res.seq = BitAnd(Seq32Add(arg.previous, -1).lo, seq_mask) =>
         txq = arg /\ bug = {}

\* two descriptors were outstanding across the wrap of the counter and one event
\* retired both
C33_retired_across_wrap ==
  /\ res.n = 1
  /\ arg.previous = Seq32Add(Seq32(0), -1)
  /\ Outstanding(2)
  /\ txq.previous = Seq32(1)
  /\ txq.ct_removed = RetiredBytes(2)
  /\ bug = {}


(***************************************************************************)
(* The transmit entry points with the event queue polled at any time: the  *)
(* caller makes the fallback call after every CTPIO send, in warm mode     *)
(* too, and may poll between the send and its fallback; the NIC completes  *)
(* packets with or without a timestamp.                                    *)
(***************************************************************************)
NextFallback ==
  \/ \E len \in TxLens, dma_id \in DmaIds : TransmitCall(len, dma_id)
  \/ \E iov \in TxIovs, threshold \in CtpioThresholds :
        TransmitvCtpioOwing(iov, threshold, TRUE)
  \/ \E dma_id \in FallbackDmaIds : TransmitCtpioFallback(dma_id)
  \/ \E dma_id \in FallbackDmaIds : TransmitvCtpioFallback(dma_id)
  \/ StartTransmitWarm
  \/ StopTransmitWarm
  \/ arg.op # "ctpio" /\ Unbundle
  \/ \E d \in nic.done..(txq.added - 1), ts \in {0, 1} : NicTxEvent(d, ts)
  \/ EventqPoll(MaxEvs, TRUE)

SpecFallback == InitTxApi /\ [][NextFallback]_vars

\* a fallback call for a CTPIO send that passed admission
FallbackOfAdmitted ==
  /\ res' # res
  /\ res'.op \in FallbackOps
  /\ arg.op = "ctpio"
  /\ arg.admitted
  /\ ~last_ctpio_failed

(***************************************************************************)
(* C34: the assertions of the CTPIO fallback hold under interleaving.      *)
(* Whenever transmit_ctpio_fallback or transmitv_ctpio_fallback is called  *)
(* after a transmitv_ctpio that passed admission (last_ctpio_failed        *)
(* false), added != removed and ids[(added - 1) & mask] ==                 *)
(* EFCT_TX_POSTED_ID, for any eventq_poll calls made between the two calls *)
(* (including polls that deliver a plain or timestamped completion for     *)
(* that very packet) and whether or not warm mode was active during the    *)
(* CTPIO send.                                                             *)
(***************************************************************************)
C34_fallback_assertions_hold ==
  [][FallbackOfAdmitted =>
       /\ txq.added # txq.removed
       /\ ids[efct_ctpio_fallback_di(TxVi)] = EFCT_TX_POSTED_ID]_vars

====
